---- MODULE Spec2Model ----
(***************************************************************************)
(* Model of the run controller of urbint/ingest (src/controller.go) and of *)
(* the way the stages (stream.go, download.go, the decoders) drive it.    *)
(*                                                                         *)
(* A controller tree R -> M -> L is built by Child(): R is the run's root, *)
(* M a child the caller made with R.Child() and handed to a stage (and to  *)
(* a DependencyGroup), L the child that stage's Start made for itself.     *)
(* Workers attach to a home controller with WorkerStart(), publish errors  *)
(* with a bare send on the controller's unbuffered Err channel and leave   *)
(* with WorkerEnd().                                                       *)
(* One caller thread issues Error(), Abort() and ChildBuilt() calls.       *)
(*                                                                         *)
(* Spec is the controller by itself, with abstract workers.  StageSpec     *)
(* runs one stage (a Streamer or a CSV, JSON or XML decoder) started on    *)
(* the root R, whose child is M and whose workers are the workers of M,    *)
(* or a Downloader started on R or on the child M (its child is then L).   *)
(* A Go panic ends the program: every action requires panic.kind = "none". *)
(* ParseSpec runs the decoders' parsing code by itself on the content of   *)
(* one reader: the CSV field binding, the JSON selection, the XML tokens.  *)
(***************************************************************************)
EXTENDS Integers, Sequences, FiniteSets, TLC

\* ---------------------------------------------------------------- bounds
NumWorkers == 2
MaxErrs == 1
MaxCalls == 2
MaxReaders == 1
MaxRows == 2
MaxURLs == 2
MaxBlocks == 2
MaxFns == 2

\* ------------------------------------------------------- the controller tree
None == "none"
Root == "R"
Ctrls == {"R", "M", "L"}
\* Controller.parent (src/controller.go:15), set by Child() at line 122
parent == [c \in Ctrls |-> CASE c = "R" -> None [] c = "M" -> "R" [] c = "L" -> "M"]
Children(c) == {d \in Ctrls : parent[d] = c}

Workers == 1..NumWorkers
\* the stage a worker belongs to: odd workers run under the leaf stage L,
\* even workers under the stage M that encloses it
HomeOf(w) == IF w % 2 = 1 THEN "L" ELSE "M"
\* the controllers referenced by the DependencyGroup of a later stage
DepCtrls == {"M"}
\* the controllers the caller holds: the root and the child it made itself
UserCtrls == {"R", "M"}
\* the controllers made inside a stage's Start, local to that stage
StageCtrls == {"L"}
NoErr == <<>>
Errs == Workers \X (1..MaxErrs)

VARIABLES
  created,     \* created[c]: NewController()/Child() has built c
  wg,          \* wg[c]: counter of the controller's sync.WaitGroup
  quit,        \* quit[c]: "open" or "closed", the Quit channel
  childBuilt,  \* childBuilt[c]: the latch guarded by mu
  sup,         \* sup[c]: position of the supervisor goroutine spawned by Child()
  supErr,      \* supErr[c]: the error the supervisor holds while forwarding
  home,        \* home[w]: controller the worker w is started on
  wpc,         \* wpc[w]: position of the worker goroutine
  nErr,        \* nErr[w]: errors the worker has sent (or is sending) on Err
  dep,         \* dep[c]: position of the DependencyGroup.Wait goroutine for c
  built,       \* built[c]: the stage's deferred ChildBuilt() on c has run
  user,        \* the caller thread: the call it is inside, if any
  last,        \* the caller thread's last completed call and its result
  cbCalls,     \* cbCalls[c]: number of ChildBuilt() invocations on c
  calls,       \* number of calls the caller thread has issued
  panic,       \* the Go panic that ended the program, if any
  doneSeen,    \* doneSeen[c]: some Wait()/Done() on c has observed counter 0
  cfg,         \* the stage that runs, its options and its input
  inq,         \* what is still in the stage's input channel
  outq,        \* the stage's output channel: "none", "open" or "closed"
  wst,         \* wst[w]: where a running stage worker stands, and what it holds
  task,        \* task[w]: the Decode goroutine of the worker's current reader
  cons,        \* the consumer of the output: the thread that called Start/Collect
  got,         \* the records the consumer received, by source (reader),
               \* each source's records in arrival order
  warned,      \* the errors that were only logged, in order
  closes,      \* closes[r]: the Close() calls made on the reader r
  prog,        \* the goroutines that stand at `Progress <- event`
  arg,         \* the input of the parsing function under study
  res,         \* what that function has computed so far
  wr,          \* the ElasticWriter's Start goroutine: where it stands
  pendingCount,\* the ElasticWriter's pendingCount field (uint32)
  proc,        \* the bulk processor: the requests each of its workers holds
  flushers,    \* flushers[f]: the processor worker f inside afterFlush
  pulses,      \* the progress pulses: those still to send, those received
  opened       \* the archive entries UnzipFile has opened (inside.Open())

\* the state of a stage and of its consumer
\* a parsing function's input and result
fn == <<arg, res>>
\* the state of the bulk writer
bulk == <<wr, pendingCount, proc, flushers, pulses>>
\* the state of the stages that are run by themselves
apart == <<bulk, opened>>

pipe == <<cfg, fn, apart, closes, prog, inq, outq, wst, task, cons, got, warned>>

vars == <<created, wg, quit, childBuilt, sup, supErr, home, wpc, nErr, dep,
          built, user, last, cbCalls, calls, panic, doneSeen, pipe>>

NoPanic == [kind |-> None, site |-> None, ctrl |-> None]
Panic(kind, site, c) == [kind |-> kind, site |-> site, ctrl |-> c]
CloseOfClosed == "close of closed channel"
NegativeCounter == "sync: negative WaitGroup counter"
NonChild == "ChildBuilt called on a non-child Controller"
SendOnClosed == "send on closed channel"

Idle == [pc |-> "idle", ctrl |-> None]
Returned(op, c, val) == [op |-> op, ctrl |-> c, val |-> val]

\* ErrAborted, the sentinel Collect and DownloadURL return on abort
ErrAborted == <<"aborted">>

\* no stage is configured, nothing is queued, no worker holds anything
NoCfg == [stage |-> None, abortOnError |-> FALSE, bad |-> <<>>, badKind |-> None,
          inClosed |-> FALSE, consumer |-> None, progress |-> FALSE]
AtSelect == [pc |-> "select", rec |-> <<>>]
NoTask == [pc |-> "none", r |-> 0, i |-> 0]
NotStarted == [pc |-> "start", recs |-> <<>>, err |-> NoErr]
\* no bulk writer runs
NoBulk ==
  /\ wr = None /\ pendingCount = 0 /\ proc = None /\ flushers = <<>>
  /\ pulses = None

NoStage ==
  /\ NoBulk /\ opened = {}
  /\ outq = "none"
  /\ wst = [w \in Workers |-> AtSelect]
  /\ task = [w \in Workers |-> NoTask]
  /\ cons = NotStarted
  /\ warned = <<>>

\* NewController: fresh channels, zero WaitGroup, no parent, latch unset
NewTree ==
  /\ created = [c \in Ctrls |-> c = Root]
  /\ wg = [c \in Ctrls |-> 0]
  /\ quit = [c \in Ctrls |-> "open"]
  /\ childBuilt = [c \in Ctrls |-> FALSE]
  /\ sup = [c \in Ctrls |-> None]
  /\ supErr = [c \in Ctrls |-> NoErr]
  /\ wpc = [w \in Workers |-> "idle"]
  /\ nErr = [w \in Workers |-> 0]
  /\ dep = [c \in Ctrls |-> "idle"]
  /\ built = [c \in Ctrls |-> FALSE]
  /\ user = Idle
  /\ last = Returned(None, None, NoErr)
  /\ cbCalls = [c \in Ctrls |-> 0]
  /\ calls = 0
  /\ panic = NoPanic
  /\ doneSeen = [c \in Ctrls |-> FALSE]

NewController ==
  /\ NewTree
  /\ home = [w \in Workers |-> HomeOf(w)]

Init ==
  /\ NewController
  /\ cfg = NoCfg /\ inq = <<>> /\ got = <<>>
  /\ NoStage
  /\ arg = None /\ res = None /\ closes = <<>> /\ prog = 0

Running == panic.kind = None

\* ------------------------------------------------------------ Err channel
\* The goroutines blocked in a send on c.Err: workers of c at `ctrl.Err <- err`
\* and supervisors of c's children at `c.Err <- err`.
Senders(c) ==
  {<<"w", w>> : w \in {v \in Workers : home[v] = c /\ wpc[v] = "pub"}}
    \cup {<<"s", d>> : d \in {x \in Children(c) : sup[x] = "forward"}}
ErrOf(s) == IF s[1] = "w" THEN <<s[2], nErr[s[2]]>> ELSE supErr[s[2]]
\* the sender continues after its send completed
WpcAfterSend(s) == IF s[1] = "w" THEN [wpc EXCEPT ![s[2]] = "run"] ELSE wpc
SupAfterSend(s) == IF s[1] = "s" THEN [sup EXCEPT ![s[2]] = "select"] ELSE sup
SupErrAfterSend(s) == IF s[1] = "s" THEN [supErr EXCEPT ![s[2]] = NoErr] ELSE supErr

Live(c) == {w \in Workers : home[w] = c /\ wpc[w] \in {"run", "pub"}}
LiveSups(c) == {d \in Children(c) : sup[d] \in {"select", "forward"}}

\* every worker of c has been started and every child of c has been created:
\* the point of a stage's Start at which its deferred ChildBuilt() runs
Constructed(c) ==
  /\ \A w \in Workers : home[w] = c => wpc[w] # "idle"
  /\ \A d \in Children(c) : created[d]

\* ------------------------------------------------------------- WaitGroup
\* wg.Done(): panics when the counter would become negative
WgDone(c) ==
  IF wg[c] = 0
  THEN /\ panic' = Panic(NegativeCounter, "Done", c)
       /\ UNCHANGED wg
  ELSE /\ wg' = [wg EXCEPT ![c] = @ - 1]
       /\ UNCHANGED panic

\* ------------------------------------------------------------ ChildBuilt
\* ChildBuilt without the childBuilt latch (the older Controller kept at
\* src/controller.go:212-217): every call releases the counter
ChildBuilt_NoLatch(c) ==
  /\ cbCalls' = [cbCalls EXCEPT ![c] = @ + 1]
  /\ IF parent[c] = None
     THEN /\ panic' = Panic(NonChild, "ChildBuilt", c)
          /\ UNCHANGED <<wg, childBuilt>>
     ELSE /\ childBuilt' = [childBuilt EXCEPT ![c] = TRUE]
          /\ WgDone(c)

\* Controller.ChildBuilt, the body under c.mu (one atomic step)
ChildBuilt(c) ==
  /\ cbCalls' = [cbCalls EXCEPT ![c] = @ + 1]
  /\ IF parent[c] = None
     THEN /\ panic' = Panic(NonChild, "ChildBuilt", c)
          /\ UNCHANGED <<wg, childBuilt>>
     ELSE IF childBuilt[c]
     THEN UNCHANGED <<wg, childBuilt, panic>>
     ELSE /\ childBuilt' = [childBuilt EXCEPT ![c] = TRUE]
          /\ WgDone(c)

\* ----------------------------------------------------------------- Child
\* a Child() that forgets c.WorkerStart() on the parent
Child_NoParentStart(c) ==
  /\ Running /\ c # Root /\ created[parent[c]] /\ ~created[c] /\ ~built[parent[c]]
  /\ created' = [created EXCEPT ![c] = TRUE]
  /\ wg' = [wg EXCEPT ![c] = 1]
  /\ sup' = [sup EXCEPT ![c] = "select"]
  /\ UNCHANGED <<quit, childBuilt, supErr, home, wpc, nErr, dep, built, user,
                 last, cbCalls, calls, panic, doneSeen>>
  /\ UNCHANGED pipe

\* Controller.Child: new controller, pre-incremented counter, one worker slot
\* on the parent, supervisor goroutine spawned
Child(c) ==
  /\ Running /\ c # Root /\ created[parent[c]] /\ ~created[c] /\ ~built[parent[c]]
  /\ created' = [created EXCEPT ![c] = TRUE]
  /\ wg' = [wg EXCEPT ![c] = 1, ![parent[c]] = @ + 1]
  /\ sup' = [sup EXCEPT ![c] = "select"]
  /\ UNCHANGED <<quit, childBuilt, supErr, home, wpc, nErr, dep, built, user,
                 last, cbCalls, calls, panic, doneSeen>>
  /\ UNCHANGED pipe

\* ---------------------------------------------------------------- workers
\* ctrl.WorkerStart() followed by `go func() { defer ctrl.WorkerEnd() ...`
WorkerStart(w) ==
  /\ Running /\ wpc[w] = "idle" /\ created[home[w]] /\ ~built[home[w]]
  /\ wg' = [wg EXCEPT ![home[w]] = @ + 1]
  /\ wpc' = [wpc EXCEPT ![w] = "run"]
  /\ UNCHANGED <<created, quit, childBuilt, sup, supErr, home, nErr, dep, built,
                 user, last, cbCalls, calls, panic, doneSeen>>
  /\ UNCHANGED pipe

\* `case <-ctrl.Quit: return` of the worker loop, then the deferred WorkerEnd
WorkerQuit(w) ==
  /\ Running /\ wpc[w] = "run" /\ quit[home[w]] = "closed"
  /\ wpc' = [wpc EXCEPT ![w] = "exited"]
  /\ WgDone(home[w])
  /\ UNCHANGED <<created, quit, childBuilt, sup, supErr, home, nErr, dep, built,
                 user, last, cbCalls, calls, doneSeen>>
  /\ UNCHANGED pipe

\* `if !ok { return }`: the input is exhausted, then the deferred WorkerEnd
WorkerFinish(w) ==
  /\ Running /\ wpc[w] = "run"
  /\ wpc' = [wpc EXCEPT ![w] = "exited"]
  /\ WgDone(home[w])
  /\ UNCHANGED <<created, quit, childBuilt, sup, supErr, home, nErr, dep, built,
                 user, last, cbCalls, calls, doneSeen>>
  /\ UNCHANGED pipe

\* the worker reaches `ctrl.Err <- err`: a send outside any select, it blocks
\* until some goroutine receives from Err
WorkerErr(w) ==
  /\ Running /\ wpc[w] = "run" /\ nErr[w] < MaxErrs
  /\ wpc' = [wpc EXCEPT ![w] = "pub"]
  /\ nErr' = [nErr EXCEPT ![w] = @ + 1]
  /\ UNCHANGED <<created, wg, quit, childBuilt, sup, supErr, home, dep, built,
                 user, last, cbCalls, calls, panic, doneSeen>>
  /\ UNCHANGED pipe

\* ------------------------------------------------------------- supervisor
\* a supervisor that drops the error it received instead of forwarding it
SupRecv_Drop(c) ==
  \E s \in Senders(c) :
  /\ Running /\ sup[c] = "select"
  /\ sup' = SupAfterSend(s)
  /\ supErr' = SupErrAfterSend(s)
  /\ wpc' = WpcAfterSend(s)
  /\ UNCHANGED <<created, wg, quit, childBuilt, home, nErr, dep, built, user,
                 last, cbCalls, calls, panic, doneSeen>>
  /\ UNCHANGED pipe

\* `case err := <-child.Err:` then the supervisor stands at `c.Err <- err`
SupRecv(c) ==
  \E s \in Senders(c) :
  /\ Running /\ sup[c] = "select"
  /\ sup' = [SupAfterSend(s) EXCEPT ![c] = "forward"]
  /\ supErr' = [SupErrAfterSend(s) EXCEPT ![c] = ErrOf(s)]
  /\ wpc' = WpcAfterSend(s)
  /\ UNCHANGED <<created, wg, quit, childBuilt, home, nErr, dep, built, user,
                 last, cbCalls, calls, panic, doneSeen>>
  /\ UNCHANGED pipe

\* `case <-c.Quit: close(child.Quit); return`, then the deferred c.WorkerEnd()
SupQuit(c) ==
  /\ Running /\ sup[c] = "select" /\ quit[parent[c]] = "closed"
  /\ IF quit[c] = "closed"
     THEN /\ panic' = Panic(CloseOfClosed, "Child", c)
          /\ UNCHANGED <<quit, sup, wg>>
     ELSE /\ quit' = [quit EXCEPT ![c] = "closed"]
          /\ sup' = [sup EXCEPT ![c] = "exitQuit"]
          /\ WgDone(parent[c])
  /\ UNCHANGED <<created, childBuilt, supErr, home, wpc, nErr, dep, built, user,
                 last, cbCalls, calls, doneSeen>>
  /\ UNCHANGED pipe

\* `case <-child.Done(): return`, then the deferred c.WorkerEnd()
SupDone(c) ==
  /\ Running /\ sup[c] = "select" /\ wg[c] = 0
  /\ sup' = [sup EXCEPT ![c] = "exitDone"]
  /\ doneSeen' = [doneSeen EXCEPT ![c] = TRUE]
  /\ WgDone(parent[c])
  /\ UNCHANGED <<created, quit, childBuilt, supErr, home, wpc, nErr, dep, built,
                 user, last, cbCalls, calls>>
  /\ UNCHANGED pipe

\* -------------------------------------------------------- DependencyGroup
\* a DependencyGroup.Wait that does not call ChildBuilt() on a child
DepChildBuilt_NoBuilt(c) ==
  /\ Running /\ c \in DepCtrls /\ dep[c] = "idle" /\ created[c]
  /\ dep' = [dep EXCEPT ![c] = "wait"]
  /\ UNCHANGED <<wg, childBuilt, panic, cbCalls>>
  /\ UNCHANGED <<created, quit, sup, supErr, home, wpc, nErr, built, user, last,
                 calls, doneSeen>>
  /\ UNCHANGED pipe

\* a DependencyGroup.Wait whose goroutine releases the pre-increment of the
\* child by itself, without asking the childBuilt latch
DepChildBuilt_Release(c) ==
  /\ Running /\ c \in DepCtrls /\ dep[c] = "idle" /\ created[c]
  /\ dep' = [dep EXCEPT ![c] = "wait"]
  /\ IF parent[c] # None
     THEN /\ cbCalls' = [cbCalls EXCEPT ![c] = @ + 1]
          /\ childBuilt' = [childBuilt EXCEPT ![c] = TRUE]
          /\ WgDone(c)
     ELSE UNCHANGED <<wg, childBuilt, panic, cbCalls>>
  /\ UNCHANGED <<created, quit, sup, supErr, home, wpc, nErr, built, user, last,
                 calls, doneSeen>>
  /\ UNCHANGED pipe

\* the goroutine DependencyGroup.Wait spawns for c: ChildBuilt() on a child
DepChildBuilt(c) ==
  /\ Running /\ c \in DepCtrls /\ dep[c] = "idle" /\ created[c]
  /\ dep' = [dep EXCEPT ![c] = "wait"]
  /\ IF parent[c] # None
     THEN ChildBuilt(c)
     ELSE UNCHANGED <<wg, childBuilt, panic, cbCalls>>
  /\ UNCHANGED <<created, quit, sup, supErr, home, wpc, nErr, built, user, last,
                 calls, doneSeen>>
  /\ UNCHANGED pipe

\* DependencyGroup.Wait returns: at once for an empty group, else when the
\* goroutine of every referenced controller has called wg.Done()
WaitReturned(group) == \A c \in group : dep[c] = "done"

\* ... then ctrl.Wait() returns and wg.Done() on the group's own WaitGroup
DepReturn(c) ==
  /\ Running /\ dep[c] = "wait" /\ wg[c] = 0
  /\ dep' = [dep EXCEPT ![c] = "done"]
  /\ doneSeen' = [doneSeen EXCEPT ![c] = TRUE]
  /\ UNCHANGED <<created, wg, quit, childBuilt, sup, supErr, home, wpc, nErr,
                 built, user, last, cbCalls, calls, panic>>
  /\ UNCHANGED pipe

\* ------------------------------------------------------- stage Start return
\* `defer ctrl.ChildBuilt()` of a stage's Start on the child it created
StageBuilt(c) ==
  /\ Running /\ c \in StageCtrls /\ created[c] /\ ~built[c] /\ Constructed(c)
  /\ built' = [built EXCEPT ![c] = TRUE]
  /\ ChildBuilt(c)
  /\ UNCHANGED <<created, quit, sup, supErr, home, wpc, nErr, dep, user, last,
                 calls, doneSeen>>
  /\ UNCHANGED pipe

\* ------------------------------------------------------- the caller thread
\* the caller enters Controller.Error on c and blocks in its select
UserError(c) ==
  /\ Running /\ user.pc = "idle" /\ calls < MaxCalls /\ created[c]
  /\ user' = [pc |-> "error", ctrl |-> c]
  /\ calls' = calls + 1
  /\ UNCHANGED <<created, wg, quit, childBuilt, sup, supErr, home, wpc, nErr,
                 dep, built, last, cbCalls, panic, doneSeen>>
  /\ UNCHANGED pipe

\* an Error() that returns the error without closing Quit
ErrorRecv_NoClose ==
  \E s \in Senders(user.ctrl) :
  /\ Running /\ user.pc = "error"
  /\ wpc' = WpcAfterSend(s)
  /\ sup' = SupAfterSend(s)
  /\ supErr' = SupErrAfterSend(s)
  /\ last' = Returned("error", user.ctrl, ErrOf(s))
  /\ user' = Idle
  /\ UNCHANGED <<created, wg, quit, childBuilt, home, nErr, dep, built, cbCalls,
                 calls, panic, doneSeen>>
  /\ UNCHANGED pipe

\* Controller.Error, `case err := <-c.Err: close(c.Quit); return err`
ErrorRecv ==
  \E s \in Senders(user.ctrl) :
  /\ Running /\ user.pc = "error"
  /\ IF quit[user.ctrl] = "closed"
     THEN /\ panic' = Panic(CloseOfClosed, "Error", user.ctrl)
          /\ UNCHANGED <<quit, wpc, sup, supErr, last, user>>
     ELSE /\ quit' = [quit EXCEPT ![user.ctrl] = "closed"]
          /\ wpc' = WpcAfterSend(s)
          /\ sup' = SupAfterSend(s)
          /\ supErr' = SupErrAfterSend(s)
          /\ last' = Returned("error", user.ctrl, ErrOf(s))
          /\ user' = Idle
          /\ UNCHANGED panic
  /\ UNCHANGED <<created, wg, childBuilt, home, nErr, dep, built, cbCalls,
                 calls, doneSeen>>
  /\ UNCHANGED pipe

\* Controller.Error, `case <-c.Done(): return nil`
ErrorDone ==
  /\ Running /\ user.pc = "error" /\ wg[user.ctrl] = 0
  /\ last' = Returned("error", user.ctrl, NoErr)
  /\ user' = Idle
  /\ doneSeen' = [doneSeen EXCEPT ![user.ctrl] = TRUE]
  /\ UNCHANGED <<created, wg, quit, childBuilt, sup, supErr, home, wpc, nErr,
                 dep, built, cbCalls, calls, panic>>
  /\ UNCHANGED pipe

\* Controller.Abort, `close(c.Quit)`; the caller then blocks in c.Wait()
UserAbort(c) ==
  /\ Running /\ user.pc = "idle" /\ calls < MaxCalls /\ created[c]
  /\ calls' = calls + 1
  /\ IF quit[c] = "closed"
     THEN /\ panic' = Panic(CloseOfClosed, "Abort", c)
          /\ UNCHANGED <<quit, user>>
     ELSE /\ quit' = [quit EXCEPT ![c] = "closed"]
          /\ user' = [pc |-> "abort", ctrl |-> c]
          /\ UNCHANGED panic
  /\ UNCHANGED <<created, wg, childBuilt, sup, supErr, home, wpc, nErr, dep,
                 built, last, cbCalls, doneSeen>>
  /\ UNCHANGED pipe

\* Controller.Abort, c.Wait() returns
AbortReturn ==
  /\ Running /\ user.pc = "abort" /\ wg[user.ctrl] = 0
  /\ last' = Returned("abort", user.ctrl, NoErr)
  /\ user' = Idle
  /\ doneSeen' = [doneSeen EXCEPT ![user.ctrl] = TRUE]
  /\ UNCHANGED <<created, wg, quit, childBuilt, sup, supErr, home, wpc, nErr,
                 dep, built, cbCalls, calls, panic>>
  /\ UNCHANGED pipe

\* the caller denotes a controller it was handed as built, after building on
\* it (`defer ctrl.ChildBuilt()` of Downloader.Start on the passed controller)
UserChildBuilt(c) ==
  /\ Running /\ user.pc = "idle" /\ calls < MaxCalls /\ created[c]
  /\ Constructed(c)
  /\ calls' = calls + 1
  /\ last' = Returned("childBuilt", c, NoErr)
  /\ ChildBuilt(c)
  /\ UNCHANGED <<created, quit, sup, supErr, home, wpc, nErr, dep, built, user,
                 doneSeen>>
  /\ UNCHANGED pipe

\* ------------------------------------------------------------ specification
Next ==
  \/ \E c \in Ctrls : Child(c)
  \/ \E w \in Workers : WorkerStart(w)
  \/ \E w \in Workers : WorkerQuit(w)
  \/ \E w \in Workers : WorkerFinish(w)
  \/ \E w \in Workers : WorkerErr(w)
  \/ \E c \in Ctrls : SupRecv(c)
  \/ \E c \in Ctrls : SupQuit(c)
  \/ \E c \in Ctrls : SupDone(c)
  \/ \E c \in Ctrls : DepChildBuilt(c)
  \/ \E c \in Ctrls : DepReturn(c)
  \/ \E c \in Ctrls : StageBuilt(c)
  \/ \E c \in UserCtrls : UserError(c)
  \/ ErrorRecv
  \/ ErrorDone
  \/ \E c \in UserCtrls : UserAbort(c)
  \/ AbortReturn
  \/ \E c \in UserCtrls : UserChildBuilt(c)

Spec == Init /\ [][Next]_vars

TypeOK ==
  /\ created \in [Ctrls -> BOOLEAN]
  /\ wg \in [Ctrls -> 0..(NumWorkers + 2)]
  /\ quit \in [Ctrls -> {"open", "closed"}]
  /\ wpc \in [Workers -> {"idle", "run", "pub", "exited"}]
  /\ sup \in [Ctrls -> {None, "select", "forward", "exitQuit", "exitDone"}]

\* the steps the program takes by itself, without the caller issuing a new call
Internal ==
  \/ \E c \in Ctrls : Child(c)
  \/ \E w \in Workers : WorkerStart(w) \/ WorkerQuit(w) \/ WorkerFinish(w) \/ WorkerErr(w)
  \/ \E c \in Ctrls : SupRecv(c)
  \/ \E c \in Ctrls : SupQuit(c) \/ SupDone(c)
  \/ \E c \in Ctrls : DepChildBuilt(c) \/ DepReturn(c) \/ StageBuilt(c)
  \/ ErrorRecv
  \/ ErrorDone
  \/ AbortReturn

\* nothing more happens unless the caller issues another call
Quiescent == Running /\ ~ENABLED Internal

\* the pre-increment of Child(), held until ChildBuilt()
Pre(c) == IF parent[c] # None /\ ~childBuilt[c] THEN 1 ELSE 0

\* =================================================================== stages
\* A stage started on the root: Streamer.Start, CSVParser.Start,
\* JSONParser.Start or XMLParser.Start called with ctrl = R.  The child the
\* stage makes is M and the stage's workers are the workers of M.  (A
\* Downloader that is handed the child M makes L.)
RunCtrl == Root
\* the controller handed to Start, and the child Start makes of it
Passed == IF cfg.stage = "download" THEN cfg.passed ELSE RunCtrl
StageCtrl == IF Passed = "M" THEN "L" ELSE "M"
\* a Streamer that runs NumWorkers workers like the decoders
StageWorkers_Parallel == Workers

\* the workers Start runs under its child: NumWorkers (MaxParallelDownloads)
\* of them, and a single one for a Streamer and for an Unzipper
\* (MaxParallelUnzips defaults to 1)
StageWorkers == IF cfg.stage \in {"stream", "unzip"} THEN {1} ELSE Workers
Decoders == {"csv", "json", "xml"}

Readers == 1..MaxReaders
Rows == 1..MaxRows
\* a record is named by its reader and its row (element) in that reader; the
\* records of a Streamer's input are the rows of one reader
RecsOf(r) == [i \in Rows |-> <<r, i>>]
\* row 0 of a reader is what precedes its records: the CSV header, the
\* tokens on the way to the JSON selection
Header == 0

\* the errors a reader can give, by stage: a ForEach function that fails; a
\* header that cannot be read; a row with the wrong field count (parse); a
\* cell or value that cannot be coerced (decode); an XML token that cannot
\* be read (token)
BadOf(stage) ==
  CASE stage = "stream" -> {[at |-> <<1, i>>, kind |-> "forEach"] : i \in Rows}
    [] stage = "csv" ->
         {[at |-> <<r, Header>>, kind |-> "other"] : r \in Readers}
           \cup {[at |-> <<r, i>>, kind |-> k] :
                   r \in Readers, i \in Rows, k \in {"parse", "decode"}}
    [] stage = "json" ->
         {[at |-> <<r, Header>>, kind |-> "other"] : r \in Readers}
           \cup {[at |-> <<r, i>>, kind |-> "decode"] : r \in Readers, i \in Rows}
    [] stage = "xml" ->
         {[at |-> <<r, i>>, kind |-> k] :
            r \in Readers, i \in Rows, k \in {"token", "decode"}}

\* ReportProgressTo: whether a progress sink is configured; the model
\* configures one only on inputs without a bad row
Sinks(bad) == IF bad = <<>> THEN BOOLEAN ELSE {FALSE}

\* the functions registered with ForEach, in the order of their
\* registration: forEachs[k] tells whether the k-th fails on the bad record
\* (every function succeeds on the other records)
ForEachs(bad) ==
  UNION {{f \in [1..n -> BOOLEAN] : (bad # <<>>) = (\E k \in 1..n : f[k])} :
         n \in 0..MaxFns}

\* the configurations: the stage, its AbortOnError option, at most one bad
\* row in its input, whether the input channel is ever closed, how the
\* output is consumed (drained by the caller, or by Streamer.Collect), and
\* whose the output channel is: the stage's own, or one given by the caller
\* with WriteTo / ReadInto
StreamCfgs ==
  UNION {{[stage |-> "stream", abortOnError |-> FALSE, bad |-> b.at,
           badKind |-> b.kind, inClosed |-> ic, consumer |-> co,
           forEachs |-> f, progress |-> p, out |-> "own"] :
            ic \in BOOLEAN, co \in {"drain", "collect"}, f \in ForEachs(b.at),
            p \in Sinks(b.at)} :
         b \in BadOf("stream") \cup {[at |-> <<>>, kind |-> None]}}
DecoderCfgs ==
  UNION {UNION {{[stage |-> st, abortOnError |-> ab, bad |-> b.at,
                   badKind |-> b.kind, inClosed |-> TRUE, consumer |-> "drain",
                   progress |-> p, out |-> "own"] :
                    ab \in BOOLEAN, p \in Sinks(b.at)} :
                b \in BadOf(st) \cup {[at |-> <<>>, kind |-> None]}} :
         st \in Decoders}

\* Downloader.Start(ctrl), with ctrl either the root R or the child M the
\* caller made with R.Child(): the Downloader's child (M, or L under M)
\* carries the download workers.
\* a URL that cannot be opened, or whose copy fails with an I/O error
DownloadCfgs ==
  {[stage |-> "download", passed |-> p, abortOnError |-> FALSE, bad |-> b.at,
    badKind |-> b.kind, inClosed |-> TRUE, consumer |-> "drain",
    progress |-> FALSE, out |-> "own"] :
     p \in {"R", "M"},
     b \in {[at |-> <<"url", u>>, kind |-> k] : u \in 1..MaxURLs, k \in {"open", "io"}}
             \cup {[at |-> <<>>, kind |-> None]}}

\* downloadQueue(): the URLs in a buffered channel that is already closed
URLs == [u \in 1..MaxURLs |-> <<"url", u>>]

\* the sources of the records a stage emits: the readers of a decoder, the
\* one input of a Streamer, the URL queue of a Downloader
SourcesOf(stage) ==
  CASE stage = "stream" -> {1}
    [] stage = "download" -> {"url"}
    [] OTHER -> Readers

\* the consumer's receive of record rec = <<source, index>>
Received(rec) == [got EXCEPT ![rec[1]] = Append(@, rec[2])]

\* the input channel at the start: the records of a Streamer's input, the
\* readers of a decoder's input
InputOf(stage) ==
  CASE stage = "stream" -> RecsOf(1)
    [] stage = "download" -> URLs
    [] OTHER -> [r \in Readers |-> r]

StageInit ==
  /\ NewTree
  /\ cfg \in StreamCfgs \cup DecoderCfgs \cup DownloadCfgs
  /\ home = [w \in Workers |-> StageCtrl]
  /\ inq = InputOf(cfg.stage)
  /\ got = [s \in SourcesOf(cfg.stage) |-> <<>>]
  /\ NoStage
  /\ arg = None /\ res = None
  /\ closes = [r \in Readers |-> 0] /\ prog = 0

\* ------------------------------------------------------------ Start
\* `ctrl.Child()` of Start (and, before it, the caller's R.Child() when it
\* hands a child to Start)
StartChild(c) ==
  /\ c \in {Passed, StageCtrl}
  /\ Child(c)

\* `out = make(chan interface{})` and `go func() { ctrl.Wait(); close(out) }()`,
\* or `out := s.Out`, the channel the caller gave
MakeOut ==
  /\ Running /\ created[StageCtrl] /\ outq = "none"
  /\ outq' = "open"
  /\ UNCHANGED <<created, wg, quit, childBuilt, sup, supErr, home, wpc, nErr,
                 dep, built, user, last, cbCalls, calls, panic, doneSeen>>
  /\ UNCHANGED <<cfg, fn, apart, closes, prog, inq, wst, task, cons, got, warned>>

\* startDecodeWorker / the Streamer's worker: ctrl.WorkerStart() and `go func()`;
\* Start's loop starts the workers one after the other
StartWorker(w) ==
  /\ w \in StageWorkers /\ outq # "none"
  /\ \A v \in StageWorkers : v < w => wpc[v] # "idle"
  /\ WorkerStart(w)

\* a Start that returns without ChildBuilt() on its child
StartReturn_NoBuilt ==
  /\ Running /\ cfg.stage # "download"
  /\ created[StageCtrl] /\ ~built[StageCtrl]
  /\ \A w \in StageWorkers : wpc[w] # "idle"
  /\ built' = [built EXCEPT ![StageCtrl] = TRUE]
  /\ cons' = [cons EXCEPT !.pc = cfg.consumer]
  /\ UNCHANGED <<created, quit, sup, supErr, home, wpc, nErr, dep, user, last,
                 calls, doneSeen, wg, childBuilt, panic, cbCalls>>
  /\ UNCHANGED <<cfg, fn, apart, closes, prog, inq, outq, wst, task, got, warned>>

\* Start returns: the deferred ChildBuilt() on the stage's child runs and the
\* caller holds the output channel
StartReturn ==
  /\ Running /\ cfg.stage # "download"
  /\ created[StageCtrl] /\ ~built[StageCtrl]
  /\ \A w \in StageWorkers : wpc[w] # "idle"
  /\ built' = [built EXCEPT ![StageCtrl] = TRUE]
  /\ ChildBuilt(StageCtrl)
  /\ cons' = [cons EXCEPT !.pc = cfg.consumer]
  /\ UNCHANGED <<created, quit, sup, supErr, home, wpc, nErr, dep, user, last,
                 calls, doneSeen>>
  /\ UNCHANGED <<cfg, fn, apart, closes, prog, inq, outq, wst, task, got, warned>>

\* Start returns: `defer ctrl.ChildBuilt()` runs on the controller that was
\* passed in, not on childCtrl
DownloadStartReturn ==
  /\ Running /\ cfg.stage = "download"
  /\ created[StageCtrl] /\ ~built[StageCtrl]
  /\ \A w \in StageWorkers : wpc[w] # "idle"
  /\ built' = [built EXCEPT ![StageCtrl] = TRUE]
  /\ ChildBuilt(Passed)
  /\ cons' = [cons EXCEPT !.pc = cfg.consumer]
  /\ UNCHANGED <<created, quit, sup, supErr, home, wpc, nErr, dep, user, last,
                 calls, doneSeen>>
  /\ UNCHANGED <<cfg, fn, apart, closes, prog, inq, outq, wst, task, got, warned>>

\* a Start that spawns the closing goroutine whatever the output is
OwnsOutput_Always == TRUE

\* `if out == nil` (Streamer, CSV, XML), `if j.ownOutput` (JSON): the
\* channel is made and the closing goroutine spawned only when the caller
\* gave no output channel
OwnsOutput == cfg.out = "own"

\* the goroutine `ctrl.Wait(); close(out)`
CloseOut ==
  /\ Running /\ outq = "open" /\ wg[StageCtrl] = 0
  /\ OwnsOutput
  /\ outq' = "closed"
  /\ doneSeen' = [doneSeen EXCEPT ![StageCtrl] = TRUE]
  /\ UNCHANGED <<created, wg, quit, childBuilt, sup, supErr, home, wpc, nErr,
                 dep, built, user, last, cbCalls, calls, panic>>
  /\ UNCHANGED <<cfg, fn, apart, closes, prog, inq, wst, task, cons, got, warned>>

\* ------------------------------------------------------ the worker's loop
\* the consumer stands in a receive from the output channel
Receiving == cons.pc \in {"drain", "collect"}

\* The stage's workers run the same code under the same controller: of the
\* workers that stand at the outer select with the same history, whichever
\* takes the next step is the one with the least number
AtOuterSelect(w) ==
  /\ w \in StageWorkers /\ wpc[w] = "run" /\ wst[w].pc = "select"
  /\ \A v \in StageWorkers :
       v < w => ~(wpc[v] = "run" /\ wst[v].pc = "select" /\ nErr[v] = nErr[w])

\* the worker's `return` and its deferred ctrl.WorkerEnd()
WorkerExit(w) ==
  /\ wpc' = [wpc EXCEPT ![w] = "exited"]
  /\ WgDone(home[w])

\* `case <-ctrl.Quit: return`: at the worker's outer select, and at the
\* Streamer's select around `out <- rec`; the decoder's inner loop
\* (`case <-done` / `case err := <-errs`) has no such case
StageWorkerQuit(w) ==
  /\ AtOuterSelect(w) \/ (w \in StageWorkers /\ wst[w].pc = "send")
  /\ WorkerQuit(w)

\* `case rec, ok := <-In` with ok false: the input is closed and drained
WorkerEOS(w) ==
  /\ Running /\ AtOuterSelect(w)
  /\ inq = <<>> /\ cfg.inClosed
  /\ WorkerExit(w)
  /\ UNCHANGED <<created, quit, childBuilt, sup, supErr, home, nErr, dep, built,
                 user, last, cbCalls, calls, doneSeen>>
  /\ UNCHANGED pipe

\* a reportProgress that sends on the sink itself: the sender is never
\* past it while nobody receives
reportProgress_Inline ==
  ~cfg.progress /\ prog' = prog

\* reportProgress: with a sink configured, a new goroutine is spawned for
\* the send `Progress <- event`, and the caller goes on
reportProgress ==
  prog' = IF cfg.progress THEN prog + 1 ELSE prog

\* the owner of the progress sink receives an event: one of the goroutines
\* that stand at the send ends
ProgressRecv ==
  /\ Running /\ prog > 0
  /\ prog' = prog - 1
  /\ UNCHANGED <<created, wg, quit, childBuilt, sup, supErr, home, wpc, nErr,
                 dep, built, user, last, cbCalls, calls, panic, doneSeen>>
  /\ UNCHANGED <<cfg, fn, apart, closes, inq, outq, wst, task, cons, got, warned>>

\* a runForEachs that runs every function and returns the last error
runForEachs_All(rec) ==
  LET failed == {k \in 1..Len(cfg.forEachs) : rec = cfg.bad /\ cfg.forEachs[k]}
  IN [called |-> [k \in 1..Len(cfg.forEachs) |-> k],
      err |-> IF failed = {} THEN NoErr
              ELSE <<"forEach", CHOOSE k \in failed : \A m \in failed : m <= k>>]

\* the loop of runForEachs from the k-th function on: the functions it
\* calls, and the first error
RECURSIVE runForEachsFrom(_, _)
runForEachsFrom(rec, k) ==
  IF k > Len(cfg.forEachs) THEN [called |-> <<>>, err |-> NoErr]
  ELSE IF rec = cfg.bad /\ cfg.forEachs[k]
       THEN [called |-> <<k>>, err |-> <<"forEach", k>>]
       ELSE LET rest == runForEachsFrom(rec, k + 1)
            IN [called |-> <<k>> \o rest.called, err |-> rest.err]

runForEachs(rec) == runForEachsFrom(rec, 1)

\* Streamer: `case rec, ok := <-s.In`, then runForEachs(rec); on an error the
\* worker stands at `ctrl.Err <- err` and continues with the loop afterwards
StreamRecv(w) ==
  /\ Running /\ cfg.stage = "stream"
  /\ AtOuterSelect(w) /\ inq # <<>>
  /\ inq' = Tail(inq)
  /\ IF runForEachs(Head(inq)).err # NoErr
     THEN /\ wpc' = [wpc EXCEPT ![w] = "pub"]
          /\ nErr' = [nErr EXCEPT ![w] = @ + 1]
          /\ UNCHANGED wst
     ELSE /\ wst' = [wst EXCEPT ![w] = [pc |-> "send", rec |-> Head(inq)]]
          /\ UNCHANGED <<wpc, nErr>>
  /\ UNCHANGED <<created, wg, quit, childBuilt, sup, supErr, home, dep, built,
                 user, last, cbCalls, calls, panic, doneSeen>>
  /\ UNCHANGED <<cfg, fn, apart, closes, prog, outq, task, cons, got, warned>>

\* Streamer: `case out <- rec`, received by the consumer (the download
\* worker's `case results <- res` is the same select)
StreamSend(w) ==
  /\ Running /\ w \in StageWorkers /\ wpc[w] = "run" /\ wst[w].pc = "send"
  /\ IF outq = "closed"
     THEN /\ panic' = Panic(SendOnClosed, "Streamer", home[w])
          /\ UNCHANGED <<wst, got, prog>>
     ELSE /\ Receiving
          /\ got' = Received(wst[w].rec)
          /\ wst' = [wst EXCEPT ![w] = AtSelect]
          /\ IF cfg.stage = "stream" THEN reportProgress ELSE UNCHANGED prog
          /\ UNCHANGED panic
  /\ UNCHANGED <<created, wg, quit, childBuilt, sup, supErr, home, wpc, nErr,
                 dep, built, user, last, cbCalls, calls, doneSeen>>
  /\ UNCHANGED <<cfg, fn, apart, closes, inq, outq, task, cons, warned>>

\* the worker stands at `ctrl.Err <- err` and loops afterwards
PublishAndLoop(w) ==
  /\ wpc' = [wpc EXCEPT ![w] = "pub"]
  /\ nErr' = [nErr EXCEPT ![w] = @ + 1]
  /\ wst' = [wst EXCEPT ![w] = AtSelect]

\* `case url, ok := <-queue`, then DownloadURL up to its copy loop: a URL that
\* cannot be opened is returned as an error
DownloadRecv(w) ==
  /\ Running /\ cfg.stage = "download"
  /\ AtOuterSelect(w) /\ inq # <<>>
  /\ inq' = Tail(inq)
  /\ IF Head(inq) = cfg.bad /\ cfg.badKind = "open"
     THEN PublishAndLoop(w)
     ELSE /\ wst' = [wst EXCEPT ![w] = [pc |-> "copy", rec |-> Head(inq), blk |-> 0]]
          /\ UNCHANGED <<wpc, nErr>>
  /\ UNCHANGED <<created, wg, quit, childBuilt, sup, supErr, home, dep, built,
                 user, last, cbCalls, calls, panic, doneSeen>>
  /\ UNCHANGED <<cfg, fn, apart, closes, prog, outq, task, cons, got, warned>>

\* one turn of DownloadURL's copy loop: `case <-abort: return nil, ErrAborted`
\* when Quit is closed, else io.CopyN of one block: an I/O error is returned,
\* EOF returns the file, which the worker then offers on results
DownloadBlock(w) ==
  /\ Running /\ w \in StageWorkers /\ wpc[w] = "run" /\ wst[w].pc = "copy"
  /\ IF quit[home[w]] = "closed" \/ wst[w].rec = cfg.bad
     THEN PublishAndLoop(w)
     ELSE /\ wst' = [wst EXCEPT ![w] =
                      IF @.blk + 1 = MaxBlocks
                      THEN [pc |-> "send", rec |-> @.rec]
                      ELSE [@ EXCEPT !.blk = @ + 1]]
          /\ UNCHANGED <<wpc, nErr>>
  /\ UNCHANGED <<created, wg, quit, childBuilt, sup, supErr, home, dep, built,
                 user, last, cbCalls, calls, panic, doneSeen>>
  /\ UNCHANGED <<cfg, fn, apart, closes, prog, inq, outq, task, cons, got, warned>>

\* decoder: `case reader, ok := <-In`, then Decode(reader, ctrl.Quit) spawns
\* the reader's goroutine and the worker enters its inner loop
DecodeRecv(w) ==
  /\ Running /\ cfg.stage \in Decoders
  /\ AtOuterSelect(w) /\ inq # <<>>
  /\ inq' = Tail(inq)
  /\ wst' = [wst EXCEPT ![w] = [pc |-> "inner", rec |-> <<>>]]
  /\ task' = [task EXCEPT ![w] = [pc |-> "read", r |-> Head(inq), i |-> Header]]
  /\ UNCHANGED <<created, wg, quit, childBuilt, sup, supErr, home, wpc, nErr,
                 dep, built, user, last, cbCalls, calls, panic, doneSeen>>
  /\ UNCHANGED <<cfg, fn, apart, closes, prog, outq, cons, got, warned>>

\* decoder: `case <-done: continue WorkerAvailable`
WorkerDone(w) ==
  /\ Running /\ w \in StageWorkers /\ wpc[w] = "run" /\ wst[w].pc = "inner"
  /\ task[w].pc = "done"
  /\ wst' = [wst EXCEPT ![w] = AtSelect]
  /\ task' = [task EXCEPT ![w] = NoTask]
  /\ UNCHANGED <<created, wg, quit, childBuilt, sup, supErr, home, wpc, nErr,
                 dep, built, user, last, cbCalls, calls, panic, doneSeen>>
  /\ UNCHANGED <<cfg, fn, apart, closes, prog, inq, outq, cons, got, warned>>

\* what runs when the Decode goroutine of w returns: the CSV decoder's
\* deferred input.Close(); JSON and XML Decode take an io.Reader and hold
\* no Close() call
DecodeReturns(w) ==
  closes' = IF cfg.stage = "csv" /\ task'[w].pc = "done"
            THEN [closes EXCEPT ![task[w].r] = @ + 1]
            ELSE closes

\* a worker that publishes every error it receives from errs
Fatal_Every(stage, kind) == TRUE

\* what the worker does with an error it received from errs: CSV publishes
\* it unless it is a field-count parse error or a CSVDecodeError; JSON and
\* XML publish it only under AbortOnError
Fatal(stage, kind) ==
  \/ cfg.abortOnError
  \/ stage = "csv" /\ kind \notin {"parse", "decode"}

\* what Decode does after its `errs <- err` completed: a header/navigation
\* error returns; CSV, and XML after a token error, continue with the next
\* row; after a decode error JSON and XML return under AbortOnError and
\* otherwise go on to send the record
TaskAfterErr(stage, t) ==
  CASE t.i = Header -> [t EXCEPT !.pc = "done"]
    [] stage = "csv" \/ cfg.badKind = "token" ->
         [t EXCEPT !.pc = "read", !.i = @ + 1]
    [] OTHER -> [t EXCEPT !.pc = IF cfg.abortOnError THEN "done" ELSE "send"]

\* decoder: `case err := <-errs`: either `ctrl.Err <- err; return` or a
\* logged warning and the next turn of the inner loop
WorkerErrs(w) ==
  /\ Running /\ w \in StageWorkers /\ wpc[w] = "run" /\ wst[w].pc = "inner"
  /\ task[w].pc = "errs"
  /\ task' = [task EXCEPT ![w] = TaskAfterErr(cfg.stage, @)]
  /\ DecodeReturns(w)
  /\ IF Fatal(cfg.stage, cfg.badKind)
     THEN /\ wpc' = [wpc EXCEPT ![w] = "pub"]
          /\ nErr' = [nErr EXCEPT ![w] = @ + 1]
          /\ wst' = [wst EXCEPT ![w] = [pc |-> "ret", rec |-> <<>>]]
          /\ UNCHANGED warned
     ELSE /\ warned' = Append(warned, <<task[w].r, task[w].i>>)
          /\ UNCHANGED <<wpc, nErr, wst>>
  /\ UNCHANGED <<created, wg, quit, childBuilt, sup, supErr, home, dep, built,
                 user, last, cbCalls, calls, panic, doneSeen>>
  /\ UNCHANGED <<cfg, fn, apart, prog, inq, outq, cons, got>>

\* decoder: the `return` that follows `ctrl.Err <- err`
WorkerReturn(w) ==
  /\ Running /\ w \in StageWorkers /\ wpc[w] = "run" /\ wst[w].pc = "ret"
  /\ WorkerExit(w)
  /\ UNCHANGED <<created, quit, childBuilt, sup, supErr, home, nErr, dep, built,
                 user, last, cbCalls, calls, doneSeen>>
  /\ UNCHANGED pipe

\* ------------------------------------------------- the Decode goroutine
\* one turn of Decode's loop: `case <-abort: return` when Quit is closed,
\* else read the header or the next row: EOF returns (closing done), an
\* error goes to `errs <- err`, a record goes to the select around
\* `Out <- rec`
TaskRead(w) ==
  /\ Running /\ w \in StageWorkers /\ task[w].pc = "read"
  /\ LET r == task[w].r
         i == task[w].i
     IN  task' = [task EXCEPT ![w] =
           IF i # Header /\ quit[home[w]] = "closed" THEN [@ EXCEPT !.pc = "done"]
           ELSE IF <<r, i>> = cfg.bad THEN [@ EXCEPT !.pc = "errs"]
           ELSE IF i = Header THEN [@ EXCEPT !.i = 1]
           ELSE IF i > MaxRows THEN [@ EXCEPT !.pc = "done"]
           ELSE [@ EXCEPT !.pc = "send"]]
  /\ DecodeReturns(w)
  /\ UNCHANGED <<created, wg, quit, childBuilt, sup, supErr, home, wpc, nErr,
                 dep, built, user, last, cbCalls, calls, panic, doneSeen>>
  /\ UNCHANGED <<cfg, fn, apart, prog, inq, outq, wst, cons, got, warned>>

\* `case Out <- rec`, received by the consumer; a send on a closed channel
\* panics
TaskSend(w) ==
  /\ Running /\ w \in StageWorkers /\ task[w].pc = "send"
  /\ IF outq = "closed"
     THEN /\ panic' = Panic(SendOnClosed, "Decode", home[w])
          /\ UNCHANGED <<task, got, prog>>
     ELSE /\ Receiving
          /\ got' = Received(<<task[w].r, task[w].i>>)
          /\ task' = [task EXCEPT ![w] = [@ EXCEPT !.pc = "read", !.i = @ + 1]]
          /\ reportProgress
          /\ UNCHANGED panic
  /\ UNCHANGED <<created, wg, quit, childBuilt, sup, supErr, home, wpc, nErr,
                 dep, built, user, last, cbCalls, calls, doneSeen>>
  /\ UNCHANGED <<cfg, fn, apart, closes, inq, outq, wst, cons, warned>>

\* `case <-abort: return` of the select around `Out <- rec`
TaskAbort(w) ==
  /\ Running /\ w \in StageWorkers /\ task[w].pc = "send"
  /\ quit[home[w]] = "closed"
  /\ task' = [task EXCEPT ![w].pc = "done"]
  /\ DecodeReturns(w)
  /\ UNCHANGED <<created, wg, quit, childBuilt, sup, supErr, home, wpc, nErr,
                 dep, built, user, last, cbCalls, calls, panic, doneSeen>>
  /\ UNCHANGED <<cfg, fn, apart, prog, inq, outq, wst, cons, got, warned>>

\* ---------------------------------------------------------- the consumer
\* the caller that drains the output observes end-of-stream
DrainEOS ==
  /\ Running /\ cons.pc = "drain" /\ outq = "closed"
  /\ cons' = [pc |-> "eos", recs |-> got, err |-> NoErr]
  /\ UNCHANGED <<created, wg, quit, childBuilt, sup, supErr, home, wpc, nErr,
                 dep, built, user, last, cbCalls, calls, panic, doneSeen>>
  /\ UNCHANGED <<cfg, fn, apart, closes, prog, inq, outq, wst, task, got, warned>>

\* Streamer.Collect, `case rec, ok := <-resultChan` with ok false:
\* `return results, nil`
CollectEOS ==
  /\ Running /\ cons.pc = "collect" /\ outq = "closed"
  /\ cons' = [pc |-> "ret", recs |-> got, err |-> NoErr]
  /\ UNCHANGED <<created, wg, quit, childBuilt, sup, supErr, home, wpc, nErr,
                 dep, built, user, last, cbCalls, calls, panic, doneSeen>>
  /\ UNCHANGED <<cfg, fn, apart, closes, prog, inq, outq, wst, task, got, warned>>

\* Streamer.Collect, `case err := <-ctrl.Err: return nil, err`
CollectErr ==
  \E s \in Senders(RunCtrl) :
  /\ Running /\ cons.pc = "collect"
  /\ cons' = [pc |-> "ret", recs |-> <<>>, err |-> ErrOf(s)]
  /\ wpc' = WpcAfterSend(s)
  /\ sup' = SupAfterSend(s)
  /\ supErr' = SupErrAfterSend(s)
  /\ UNCHANGED <<created, wg, quit, childBuilt, home, nErr, dep, built, user,
                 last, cbCalls, calls, panic, doneSeen>>
  /\ UNCHANGED <<cfg, fn, apart, closes, prog, inq, outq, wst, task, got, warned>>

\* Streamer.Collect, `case <-ctrl.Quit: return nil, ErrAborted`
CollectQuit ==
  /\ Running /\ cons.pc = "collect" /\ quit[RunCtrl] = "closed"
  /\ cons' = [pc |-> "ret", recs |-> <<>>, err |-> ErrAborted]
  /\ UNCHANGED <<created, wg, quit, childBuilt, sup, supErr, home, wpc, nErr,
                 dep, built, user, last, cbCalls, calls, panic, doneSeen>>
  /\ UNCHANGED <<cfg, fn, apart, closes, prog, inq, outq, wst, task, got, warned>>

\* --------------------------------------------------- stage specification
StageNext ==
  \/ \E c \in Ctrls : StartChild(c)
  \/ MakeOut
  \/ \E w \in Workers : StartWorker(w)
  \/ StartReturn
  \/ DownloadStartReturn
  \/ CloseOut
  \/ \E w \in Workers : StageWorkerQuit(w)
  \/ \E w \in Workers : WorkerEOS(w)
  \/ \E w \in Workers : StreamRecv(w)
  \/ \E w \in Workers : StreamSend(w)
  \/ \E w \in Workers : DownloadRecv(w)
  \/ \E w \in Workers : DownloadBlock(w)
  \/ \E w \in Workers : DecodeRecv(w)
  \/ \E w \in Workers : WorkerDone(w)
  \/ \E w \in Workers : WorkerErrs(w)
  \/ \E w \in Workers : WorkerReturn(w)
  \/ \E w \in Workers : TaskRead(w)
  \/ \E w \in Workers : TaskSend(w)
  \/ \E w \in Workers : TaskAbort(w)
  \/ ProgressRecv
  \/ \E c \in Ctrls : SupRecv(c)
  \/ \E c \in Ctrls : SupQuit(c)
  \/ \E c \in Ctrls : SupDone(c)
  \/ DrainEOS
  \/ CollectEOS
  \/ CollectErr
  \/ CollectQuit
  \/ UserError(RunCtrl)
  \/ ErrorRecv
  \/ ErrorDone
  \/ UserAbort(RunCtrl)
  \/ AbortReturn

StageSpec == StageInit /\ [][StageNext]_vars

\* the steps the stage and its consumer take by themselves, without the
\* caller issuing a new Error() or Abort()
StageInternal ==
  \/ \E c \in Ctrls : StartChild(c)
  \/ MakeOut
  \/ \E w \in Workers : StartWorker(w) \/ StageWorkerQuit(w) \/ WorkerEOS(w)
  \/ StartReturn
  \/ DownloadStartReturn
  \/ CloseOut
  \/ \E w \in Workers : StreamRecv(w) \/ StreamSend(w) \/ DecodeRecv(w)
  \/ \E w \in Workers : DownloadRecv(w) \/ DownloadBlock(w)
  \/ \E w \in Workers : WorkerDone(w) \/ WorkerErrs(w) \/ WorkerReturn(w)
  \/ \E w \in Workers : TaskRead(w) \/ TaskSend(w) \/ TaskAbort(w)
  \/ \E c \in Ctrls : SupRecv(c)
  \/ \E c \in Ctrls : SupQuit(c)
  \/ \E c \in Ctrls : SupDone(c)
  \/ DrainEOS
  \/ CollectEOS
  \/ CollectErr
  \/ CollectQuit
  \/ ErrorRecv
  \/ ErrorDone
  \/ AbortReturn

\* the stage has come to rest: nothing happens unless the caller calls again
StageQuiescent == Running /\ ~ENABLED StageInternal

StageTypeOK ==
  /\ cfg \in StreamCfgs \cup DecoderCfgs \cup DownloadCfgs
  /\ outq \in {"none", "open", "closed"}
  /\ wpc \in [Workers -> {"idle", "run", "pub", "exited"}]
  /\ \A w \in Workers : wst[w].pc \in {"select", "send", "inner", "ret", "copy"}
  /\ \A w \in Workers : task[w].pc \in {"none", "read", "errs", "send", "done"}
  /\ cons.pc \in {"start", "drain", "collect", "eos", "ret"}
  /\ wg \in [Ctrls -> 0..(NumWorkers + 2)]

\* ----------------------------------------------------------------- claims

\* C1: for any sequence of Abort() and Error() calls on a controller, no call
\* fails because the Quit channel is already closed (the signal is closed
\* exactly once).
C1_AbortOneShot ==
  ~(panic.kind = CloseOfClosed /\ panic.site \in {"Abort", "Error"})

\* C2: once the parent's Quit is closed, the child's Quit is closed exactly
\* once: never a second close, and never left open while the child still has
\* running workers and nothing more can happen.
C2_ChildAbortOnce ==
  \A c \in Ctrls \ {Root} :
    (created[c] /\ quit[parent[c]] = "closed") =>
      /\ ~(panic.kind = CloseOfClosed /\ panic.ctrl = c)
      /\ (Quiescent /\ Live(c) # {}) => quit[c] = "closed"

\* C3: first error wins. When Error() returns an error, it is one of the
\* errors being sent on the controller's Err at that moment, exactly one
\* sender is released, and Quit is closed.
C3_FirstErrorWins ==
  [][\A c \in Ctrls :
       (user.pc = "error" /\ user.ctrl = c /\ user'.pc = "idle"
          /\ last'.val # NoErr) =>
         /\ last'.val \in {ErrOf(s) : s \in Senders(c)}
         /\ last'.val \in Errs /\ last'.val[2] <= nErr[last'.val[1]]
         /\ Senders(c)' \subseteq Senders(c)
         /\ Cardinality(Senders(c)') = Cardinality(Senders(c)) - 1
         /\ quit'[c] = "closed"]_vars

\* Error() has returned one error while another publisher of the same
\* controller is still blocked in its send
C3_Witness ==
  /\ last.op = "error" /\ last.val # NoErr
  /\ quit[last.ctrl] = "closed"
  /\ Senders(last.ctrl) # {}

\* C4: after Error() on the root has returned an error, every stage unwinds:
\* when nothing more can happen every WaitGroup counter is back at zero.
C4_AllUnwind ==
  (Quiescent /\ last.op = "error" /\ last.ctrl = Root /\ last.val # NoErr) =>
    \A c \in Ctrls : wg[c] = 0

\* C5: when Abort() on the root returns, no worker of the root or of any
\* controller below it is still running.
C5_AbortWaitsForTree ==
  [][(user.pc = "abort" /\ user.ctrl = Root /\ user'.pc = "idle") =>
       \A w \in Workers : wpc'[w] \notin {"run", "pub"}]_vars

DoneIsFinal == \A c \in Ctrls : doneSeen[c] => wg[c] = 0

\* C7: a supervisor holding an error to forward never stays blocked once the
\* parent's Quit is closed: when nothing more can happen, no supervisor is
\* still at its forwarding send under a closed parent. (Stated for the runs
\* in which no done was witnessed prematurely, so that a violation does not
\* rest on C9.)
C7_ForwardNeverBlocks ==
  (Quiescent /\ DoneIsFinal) =>
    \A c \in Ctrls \ {Root} :
      ~(sup[c] = "forward" /\ quit[parent[c]] = "closed")

\* C8: a child counts as exactly one worker of its parent. The counter of a
\* controller is its own live workers, plus one per child whose supervisor
\* has not exited, plus its pre-increment; and a controller whose counter is
\* zero has no child whose supervisor is alive: each such supervisor left
\* because the child was done or because the parent's Quit was closed.
C8_ChildIsOneWorker ==
  \A c \in Ctrls : created[c] =>
    /\ wg[c] = Pre(c) + Cardinality(Live(c)) + Cardinality(LiveSups(c))
    /\ wg[c] = 0 =>
         \A d \in Children(c) : created[d] =>
           \/ sup[d] = "exitDone" /\ doneSeen[d]
           \/ sup[d] = "exitQuit" /\ quit[c] = "closed"

\* the child M holds several workers while the root counts it once
C8_Witness ==
  /\ sup["M"] = "select" /\ wg["M"] >= 3 /\ wg["R"] = 1
  /\ Cardinality(Live("M")) >= 1

\* C9: once done has been witnessed on a child controller, no worker is
\* started on it any more and no child is attached to it any more.
C9_DoneAfterAllStarted ==
  [][\A c \in Ctrls \ {Root} : doneSeen[c] =>
       /\ \A w \in Workers :
            (home[w] = c /\ wpc[w] = "idle") => wpc'[w] = "idle"
       /\ \A d \in Children(c) : created'[d] = created[d]]_vars

\* C10: ChildBuilt() is idempotent on a child: the first call lowers the
\* counter by exactly one, every later call leaves it unchanged; on a
\* controller without a parent it panics and changes nothing.
C10_ChildBuiltIdempotent ==
  [][\A c \in Ctrls : (cbCalls'[c] = cbCalls[c] + 1) =>
       IF parent[c] = None
       THEN /\ panic'.kind = NonChild
            /\ UNCHANGED <<created, wg, quit, childBuilt, sup, wpc>>
       ELSE /\ wg' = [wg EXCEPT ![c] = IF cbCalls[c] = 0 THEN @ - 1 ELSE @]
            /\ childBuilt'[c]
            /\ UNCHANGED <<panic, quit>>]_vars

\* ChildBuilt() has been invoked more than once on the child M
C10_Witness ==
  /\ Running /\ cbCalls["M"] >= 2 /\ childBuilt["M"]
  /\ wg["M"] = Cardinality(Live("M")) + Cardinality(LiveSups("M"))

C12_OutputClosedAfterSenders ==
  /\ panic.kind # SendOnClosed
  /\ outq = "closed" =>
       \A w \in StageWorkers :
         /\ wpc[w] = "exited"
         /\ task[w].pc \notin {"read", "send"}

\* the records the consumer received from source s are exactly those with
\* the indexes of `all`, each once
GotExactly(s, all) ==
  /\ Len(got[s]) = Cardinality(all)
  /\ \A i \in all : \E j \in DOMAIN got[s] : got[s][j] = i

\* C13: a Downloader run without abort in which every URL downloads, drained
\* by the consumer, does not panic, and once nothing more can happen one file
\* per URL was emitted, the output channel is closed, the counter of every
\* controller of the tree is zero and no Error() call is left blocked.
C13_DownloadTerminates ==
  (cfg.stage = "download" /\ cfg.bad = <<>> /\ quit[RunCtrl] = "open") =>
    /\ panic.kind = None
    /\ StageQuiescent =>
         /\ GotExactly("url", 1..MaxURLs)
         /\ outq = "closed"
         /\ \A c \in Ctrls : wg[c] = 0
         /\ user.pc # "error"

\* every record of every reader has been received by the consumer
AllEmitted == \A r \in Readers : GotExactly(r, Rows)

\* a decoder run with readers that all decode, which nobody aborts
CleanDecoderRun ==
  /\ cfg.stage \in Decoders /\ cfg.inClosed /\ cfg.bad = <<>>
  /\ quit[RunCtrl] = "open"

\* C14: in a decoder run (CSV, JSON or XML) that owns its output, with a
\* closed input of readers, no decode error and no abort: nothing panics,
\* the output is closed only after every record of every reader was emitted,
\* an Error() on the run controller that has returned returned nil, and once
\* nothing more can happen the consumer has observed end-of-stream with
\* every record received, every counter is zero and no Error() is blocked.
C14_DecoderRunCompletes ==
  CleanDecoderRun =>
    /\ Running
    /\ outq = "closed" => AllEmitted
    /\ (last.op = "error" /\ last.ctrl = RunCtrl) => last.val = NoErr
    /\ StageQuiescent =>
         /\ cons.pc = "eos" /\ AllEmitted
         /\ \A c \in Ctrls : wg[c] = 0
         /\ user.pc # "error"

\* the consumer drained every record to end-of-stream and an Error() on the
\* run controller then returned nil by Done()
C14_Witness ==
  /\ CleanDecoderRun /\ StageQuiescent
  /\ cons.pc = "eos" /\ AllEmitted /\ cons.recs = got
  /\ last = Returned("error", RunCtrl, NoErr) /\ doneSeen[RunCtrl]
  /\ \A w \in StageWorkers : wpc[w] = "exited"

\* C15: when Abort() is called on the run controller during a download in
\* which every URL is good, then once nothing more can happen every download
\* worker has exited, the Downloader's output is closed, Abort() has
\* returned, and an Error() called on the run controller returned nil.
C15_AbortDuringDownload ==
  (/\ cfg.stage = "download" /\ cfg.bad = <<>>
   /\ quit[RunCtrl] = "closed" /\ StageQuiescent) =>
    /\ \A w \in StageWorkers : wpc[w] = "exited"
    /\ outq = "closed"
    /\ user.pc = "idle"
    /\ (last.op = "error" /\ last.ctrl = RunCtrl) => last.val = NoErr

\* C16: in a download with one bad URL no file of the bad URL is ever
\* emitted, and once nothing more can happen the workers have exited: after
\* an abort without further files, otherwise after every other URL's file
\* was emitted.
C16_DownloadError ==
  (cfg.stage = "download" /\ cfg.bad # <<>>) =>
    /\ \A j \in DOMAIN got["url"] : <<"url", got["url"][j]>> # cfg.bad
    /\ StageQuiescent =>
         /\ \A w \in StageWorkers : wpc[w] = "exited"
         /\ quit[StageCtrl] = "open" =>
              GotExactly("url", {u \in 1..MaxURLs : <<"url", u>> # cfg.bad})

\* the Streamer's input was closed and every record that passed its ForEach
\* functions has been received
StreamComplete ==
  /\ cfg.inClosed
  /\ GotExactly(1, {i \in Rows : <<1, i>> # cfg.bad})

\* C17: when Collect returns a nil error it returns the records received up
\* to the end of the stream, no error is on offer on the run controller's
\* Err channel, and the stream was not cut short by an abort; when it
\* returns an error (a published one, or ErrAborted) it returns no records.
C17_CollectOutcome ==
  [][(cons.pc = "collect" /\ cons'.pc = "ret") =>
       /\ cons'.err = NoErr =>
            /\ outq = "closed" /\ cons'.recs = got
            /\ Senders(RunCtrl) = {}
            /\ StreamComplete
       /\ cons'.err # NoErr => cons'.recs = <<>>]_vars

\* the indexes of q are strictly increasing
InSourceOrder(q) == \A i, j \in DOMAIN q : i < j => q[i] < q[j]

\* C18: the records a decoder emits from one reader reach the consumer in
\* the order of the reader's rows, none twice, and a Streamer forwards its
\* records in the order of its input.
C18_SourceOrder ==
  cfg.stage \in Decoders \cup {"stream"} =>
    \A s \in DOMAIN got : InSourceOrder(got[s])

\* every row of a reader has been received from a decoder
C18_Witness ==
  /\ cfg.stage \in Decoders
  /\ \E r \in Readers : Len(got[r]) = MaxRows /\ got[r][MaxRows] = MaxRows

\* a CSV run without AbortOnError in which one cell cannot be coerced
CsvDecodeErrorRun ==
  cfg.stage = "csv" /\ ~cfg.abortOnError /\ cfg.badKind = "decode"

\* the rows of reader r that decode
GoodRows(r) == {i \in Rows : <<r, i>> # cfg.bad}

\* C19: in a CSV run with abort_on_error=false in which one row has a cell
\* that cannot be coerced: no record of that row is ever emitted, the error
\* is logged as a warning at most once and never published (no worker ever
\* stands at `ctrl.Err <- err`), and in a run nobody aborts, once nothing
\* more can happen the warning was logged, every other row of every reader
\* was emitted and the consumer has observed end-of-stream.
C19_CsvDecodeErrorSkipsRow ==
  CsvDecodeErrorRun =>
    /\ \A r \in Readers : \A j \in DOMAIN got[r] : <<r, got[r][j]>> # cfg.bad
    /\ warned \in {<<>>, <<cfg.bad>>}
    /\ \A w \in Workers : nErr[w] = 0 /\ wpc[w] # "pub"
    /\ (StageQuiescent /\ quit[RunCtrl] = "open") =>
         /\ warned = <<cfg.bad>>
         /\ \A r \in Readers : GotExactly(r, GoodRows(r))
         /\ cons.pc = "eos"

\* the first row of a reader did not decode, the warning was logged, and
\* the row after it was emitted
C19_Witness ==
  /\ CsvDecodeErrorRun /\ cfg.bad[2] = 1
  /\ warned = <<cfg.bad>>
  /\ got[cfg.bad[1]] = [i \in 1..(MaxRows - 1) |-> i + 1]
  /\ cons.pc = "eos"

\* C20: in a decoder run (CSV, JSON or XML) with abort_on_error=false and one
\* failing read: a per-record parse or decode error is never published, and
\* in a run nobody aborts the records after it are emitted to end-of-stream;
\* an error of any other kind is never just logged, and in a run nobody
\* aborts the worker that received it has published it and returned.
C20_OtherErrorsFatal ==
  (cfg.stage \in Decoders /\ ~cfg.abortOnError /\ cfg.bad # <<>>) =>
    /\ cfg.badKind \in {"parse", "decode"} =>
         /\ \A w \in Workers : nErr[w] = 0 /\ wpc[w] # "pub"
         /\ (StageQuiescent /\ quit[RunCtrl] = "open") =>
              /\ warned = <<cfg.bad>> /\ cons.pc = "eos"
              /\ \A r \in Readers : \A i \in GoodRows(r) :
                   \E j \in DOMAIN got[r] : got[r][j] = i
    /\ cfg.badKind = "other" =>
         /\ warned = <<>>
         /\ (StageQuiescent /\ quit[RunCtrl] = "open") =>
              \E w \in StageWorkers : nErr[w] = 1 /\ wpc[w] = "exited"

\* a decoder run under AbortOnError with one failing read
AbortOnErrorRun ==
  cfg.stage \in Decoders /\ cfg.abortOnError /\ cfg.bad # <<>>

\* C21: in a decoder run with abort_on_error=true and one failing row, no
\* record of the failing row or of a row after it in that reader is ever
\* emitted, and once nothing more can happen the error has been published
\* by a worker and no Decode goroutine is left running.
C21_AbortOnErrorQuitsReader ==
  AbortOnErrorRun =>
    /\ \A j \in DOMAIN got[cfg.bad[1]] : got[cfg.bad[1]][j] < cfg.bad[2]
    /\ StageQuiescent =>
         \A w \in StageWorkers : task[w].pc \in {"none", "done"}
    /\ (StageQuiescent /\ quit[RunCtrl] = "open") =>
         \E w \in StageWorkers : nErr[w] = 1

\* ---------------------------------------------------- the CSV field binding
\* Strings are sequences of characters.  A record shape (a Go struct type) is
\* a sequence of fields; the model counts field indices from 1, Go from 0.
\* A field is a string or a nested struct, with or without a csv tag.
MaxFields == 2
MaxCols == 2

\* strings.TrimSpace
TrimSpace(s) ==
  LET keep == {i \in 1..Len(s) : s[i] # " "}
  IN IF keep = {} THEN <<>>
     ELSE SubSeq(s, CHOOSE i \in keep : \A k \in keep : i <= k,
                    CHOOSE i \in keep : \A k \in keep : i >= k)

\* the header cells and the row cells the readers hold
HeaderCells == {<<>>, <<" ">>, <<"a">>, <<" ", "a", " ">>, <<"b">>}
RowCells == {<<>>, <<" ", "x">>}

\* a field of a record shape: its type (kind), its csv tag if it has one,
\* whether it is exported, and the fields of a struct type
StringFields ==
  {[kind |-> "string", tagged |-> FALSE, csv |-> <<>>, fields |-> <<>>,
    exported |-> TRUE],
   [kind |-> "string", tagged |-> TRUE, csv |-> <<"a">>, fields |-> <<>>,
    exported |-> TRUE]}
StructFields ==
  {[kind |-> "struct", tagged |-> f.tagged, csv |-> f.csv, fields |-> <<g>>,
    exported |-> TRUE] :
     f \in StringFields, g \in StringFields}
\* time.Time is a struct of the unexported fields wall uint64, ext int64 and
\* loc *Location (a pointer to a struct whose first field is name string),
\* none with a tag
Unexported(kind, fields) ==
  [kind |-> kind, tagged |-> FALSE, csv |-> <<>>, fields |-> fields,
   exported |-> FALSE]
TimeType ==
  <<Unexported("uint64", <<>>), Unexported("int64", <<>>),
    Unexported("struct", <<Unexported("string", <<>>)>>)>>
\* a timestamp field with the tag `csv:"b"`
TimeFields ==
  {[kind |-> "time.Time", tagged |-> TRUE, csv |-> <<"b">>, fields |-> TimeType,
    exported |-> TRUE]}
RecordTypes ==
  UNION {[1..n -> StringFields \cup StructFields \cup TimeFields] :
           n \in 1..MaxFields}
HeaderRows == UNION {[1..n -> HeaderCells] : n \in 1..MaxCols}

\* field.Tag.Get("csv"): the tag's value, the empty string without a tag
TagGet(field) == IF field.tagged THEN field.csv ELSE <<>>

\* `kind == reflect.Struct || (kind == reflect.Ptr && ...Elem().Kind() ==
\* reflect.Struct)`: true of a struct, of a pointer to one, and of time.Time
isEmbeddedStruct(field) == field.kind \in {"struct", "time.Time"}

\* the loop of findFieldInStruct from field i on
RECURSIVE findFieldFrom(_, _, _)
findFieldFrom(fieldName, target, i) ==
  IF i > Len(target) THEN [result |-> <<>>, found |-> FALSE]
  ELSE LET field == target[i]
           nested == findFieldFrom(fieldName, field.fields, 1)
       IN IF isEmbeddedStruct(field)
          THEN IF nested.found
               THEN [result |-> <<i>> \o nested.result, found |-> TRUE]
               ELSE findFieldFrom(fieldName, target, i + 1)
          ELSE IF TagGet(field) = fieldName
               THEN [result |-> <<i>>, found |-> TRUE]
               ELSE findFieldFrom(fieldName, target, i + 1)

findFieldInStruct(fieldName, target) == findFieldFrom(fieldName, target, 1)

parseHeaderForType(header, targetType) ==
  [column \in 1..Len(header) |->
     findFieldInStruct(TrimSpace(header[column]), targetType).result]

\* field.SetString(str) on the field at the end of the index path; a record
\* is the set of its assigned fields, every other field has its zero value
SetString(rec, path, str) ==
  {f \in rec : f[1] # path} \cup {<<path, str>>}

\* `field = field.Field(fieldIndex)` along the index path: the field reached,
\* exported only if every field on the way is
RECURSIVE FieldAt(_, _)
FieldAt(target, path) ==
  LET field == target[Head(path)]
  IN IF Len(path) = 1 THEN field
     ELSE LET inner == FieldAt(field.fields, Tail(path))
          IN [inner EXCEPT !.exported = @ /\ field.exported]

\* the loop of parseRowWithFieldMap from column j on, with TrimSpaces set
\* and TrimFloats unset (the defaults), on a record of the shape target:
\* field.Interface() panics on a field reached through an unexported one;
\* the switch sets a string, hands a time.Time to time.Parse (no cell of the
\* model is a date in DateFormat) and has no case for the other types here
RECURSIVE parseRowFrom(_, _, _, _, _)
parseRowFrom(row, fieldMap, j, rec, target) ==
  IF j > Len(row) THEN [rec |-> rec, err |-> NoErr]
  ELSE IF Len(fieldMap[j]) = 0 \/ Len(row[j]) = 0
       THEN parseRowFrom(row, fieldMap, j + 1, rec, target)
       ELSE LET field == FieldAt(target, fieldMap[j])
            IN CASE ~field.exported ->
                      [rec |-> {}, err |-> <<"panic", "Interface">>]
                 [] field.kind = "string" ->
                      parseRowFrom(row, fieldMap, j + 1,
                                   SetString(rec, fieldMap[j], TrimSpace(row[j])),
                                   target)
                 [] field.kind = "time.Time" ->
                      [rec |-> {}, err |-> <<"CSVDecodeError", "date">>]
                 [] OTHER ->
                      [rec |-> {}, err |-> <<"CSVDecodeError", "Unhandled type">>]

\* parseRowWithFieldMap on a new record (c.newRec()) of the shape under
\* study
parseRowWithFieldMap(row, fieldMap) ==
  parseRowFrom(row, fieldMap, 1, {}, arg.type)

\* ---------------------------------------------------- the JSON selection
\* A document is the sequence of the tokens json.Decoder.Token() returns for
\* it: delimiters, strings (object keys, of one character) and numbers.  The
\* documents of the model hold n records {"k":i} in an array, at the top
\* level or two objects deep, and no string values.
MaxSel == 5
MaxRecs == 3

Delim(c) == [kind |-> "delim", val |-> c, num |-> 0]
String(str) == [kind |-> "string", val |-> str, num |-> 0]
Number(i) == [kind |-> "number", val |-> "", num |-> i]

\* the record {"k":i}, and the elements of an array of n records
Record(i) == <<Delim("{"), String("k"), Number(i), Delim("}")>>
RECURSIVE Records(_)
Records(n) == IF n = 0 THEN <<>> ELSE Records(n - 1) \o Record(n)

\* the document {"<k>":{"b":[r1,...,rn]}}
NestedDoc(k, n) ==
  <<Delim("{"), String(k), Delim("{"), String("b"), Delim("[")>>
    \o Records(n) \o <<Delim("]"), Delim("}"), Delim("}")>>

JSONDocs ==
  {<<Delim("[")>> \o Records(n) \o <<Delim("]")>> : n \in 0..MaxRecs}
    \cup {NestedDoc(k, n) : k \in {"a", "c"}, n \in 0..MaxRecs}

\* the Selection option: a string of at most MaxSel characters
Selections == UNION {[1..n -> {".", "a", "b", "*"}] : n \in 0..MaxSel}

\* strings.Split(s, "."): the pieces between the dots, at least one piece
RECURSIVE Split(_)
Split(s) ==
  IF \A i \in 1..Len(s) : s[i] # "." THEN <<s>>
  ELSE LET d == CHOOSE i \in 1..Len(s) :
                  s[i] = "." /\ \A k \in 1..(i - 1) : s[k] # "."
       IN <<SubSeq(s, 1, d - 1)>> \o Split(SubSeq(s, d + 1, Len(s)))

\* a navigation in which an empty component consumes a token
RECURSIVE navigateFrom_EmptyConsumes(_, _, _)
navigateFrom_EmptyConsumes(nestIn, tokens, pos) ==
  IF Len(nestIn) = 0 THEN [pos |-> pos, err |-> NoErr]
  ELSE IF pos > Len(tokens) THEN [pos |-> pos, err |-> <<"EOF">>]
  ELSE LET token == tokens[pos]
       IN IF nestIn[1] = <<>> \/ (token.kind = "string" /\ <<token.val>> = nestIn[1])
          THEN navigateFrom_EmptyConsumes(Tail(nestIn), tokens, pos + 1)
          ELSE IF nestIn[1] = <<"*">> /\ token = Delim("[")
               THEN navigateFrom_EmptyConsumes(Tail(nestIn), tokens, pos + 1)
               ELSE navigateFrom_EmptyConsumes(nestIn, tokens, pos + 1)

\* the loop of navigateToSelection: nestIn is what is left of the path, pos
\* the next token of the decoder; Token() fails with io.EOF after the last
RECURSIVE navigateFrom(_, _, _)
navigateFrom(nestIn, tokens, pos) ==
  IF Len(nestIn) = 0 THEN [pos |-> pos, err |-> NoErr]
  ELSE IF nestIn[1] = <<>> THEN navigateFrom(Tail(nestIn), tokens, pos)
  ELSE IF pos > Len(tokens) THEN [pos |-> pos, err |-> <<"EOF">>]
  ELSE LET token == tokens[pos]
       IN IF token.kind = "string" /\ <<token.val>> = nestIn[1]
          THEN navigateFrom(Tail(nestIn), tokens, pos + 1)
          ELSE IF nestIn[1] = <<"*">> /\ token = Delim("[")
               THEN navigateFrom(Tail(nestIn), tokens, pos + 1)
               ELSE navigateFrom(nestIn, tokens, pos + 1)

navigateToSelection(selection, tokens) ==
  navigateFrom(Split(selection), tokens, 1)

\* decoder.More(): there is a next token and it closes no array or object
More(tokens, pos) ==
  pos <= Len(tokens) /\ tokens[pos] \notin {Delim("]"), Delim("}")}

\* the last token of the JSON value that starts at pos
RECURSIVE ValueEnd(_, _, _)
ValueEnd(tokens, pos, depth) ==
  LET d == IF tokens[pos] \in {Delim("["), Delim("{")} THEN depth + 1
           ELSE IF tokens[pos] \in {Delim("]"), Delim("}")} THEN depth - 1
           ELSE depth
  IN IF d = 0 THEN pos ELSE ValueEnd(tokens, pos + 1, d)

\* decoder.Decode(rec) with the decoder before the value at pos: the value
\* is read whole; an object fills the record, anything else leaves it at
\* its zero value and gives an UnmarshalTypeError
jsonDecode(tokens, pos) ==
  LET end == ValueEnd(tokens, pos, 0)
  IN IF tokens[pos] = Delim("{")
     THEN [pos |-> end + 1, rec |-> SubSeq(tokens, pos, end), err |-> NoErr]
     ELSE [pos |-> end + 1, rec |-> <<>>, err |-> <<"UnmarshalTypeError">>]

\* ------------------------------------------------------ the XML selection
\* A document is the sequence of the tokens xml.Decoder.Token() returns for
\* it: start and end elements of at most MaxElems elements, well nested.
MaxElems == 3

\* every start element of tokens[i..] has its end element, given the names
\* of the elements open at i
RECURSIVE WellNested(_, _, _)
WellNested(tokens, i, open) ==
  IF i > Len(tokens) THEN open = <<>>
  ELSE IF tokens[i].kind = "start"
       THEN WellNested(tokens, i + 1, <<tokens[i].name>> \o open)
       ELSE /\ open # <<>> /\ Head(open) = tokens[i].name
            /\ WellNested(tokens, i + 1, Tail(open))

XMLDocs ==
  UNION {{d \in [1..(2 * n) -> [kind : {"start", "end"}, name : {"a", "rec"}]] :
            WellNested(d, 1, <<>>)} : n \in 0..MaxElems}

\* the end element of the start element at pos
RECURSIVE ElementEnd(_, _, _)
ElementEnd(tokens, pos, depth) ==
  LET d == IF tokens[pos].kind = "start" THEN depth + 1 ELSE depth - 1
  IN IF d = 0 THEN pos ELSE ElementEnd(tokens, pos + 1, d)

\* a Decode that looks for the selection inside a decoded element again
xmlTurn_Nested(in, r) ==
  IF r.pos > Len(in.tokens) THEN [r EXCEPT !.pc = "done"]
  ELSE IF in.tokens[r.pos] = [kind |-> "start", name |-> in.selection]
       THEN [r EXCEPT !.pos = @ + 1,
               !.out = Append(@, [at |-> r.pos,
                                  rec |-> SubSeq(in.tokens, r.pos,
                                            ElementEnd(in.tokens, r.pos, 0))])]
       ELSE [r EXCEPT !.pos = @ + 1]

\* one turn of Decode's loop from r: return at io.EOF; at a start element
\* whose local name is the selection, DecodeElement reads the element up to
\* its end into a record, which is sent on the output; any other token is
\* dropped.  The record is the element, with the place of its start.
xmlTurn(in, r) ==
  IF r.pos > Len(in.tokens) THEN [r EXCEPT !.pc = "done"]
  ELSE IF in.tokens[r.pos] = [kind |-> "start", name |-> in.selection]
       THEN LET end == ElementEnd(in.tokens, r.pos, 0)
            IN [r EXCEPT !.pos = end + 1,
                  !.out = Append(@, [at |-> r.pos,
                                     rec |-> SubSeq(in.tokens, r.pos, end)])]
       ELSE [r EXCEPT !.pos = @ + 1]

\* ------------------------------------------------- the parsers, one reader
\* ParseSpec runs the parsing code of the decoders on the content of one
\* reader, outside of any stage: the CSV header and one row; the JSON
\* navigation and the records after it; the XML tokens and the records
\* among them.  Nobody aborts, and the worker and
\* the consumer take what Decode sends: errs and out are what they got.
CsvInputs ==
  {[fn |-> "csv", type |-> t, header |-> h] :
     t \in RecordTypes, h \in HeaderRows}

JSONInputs ==
  {[fn |-> "json", selection |-> sel, tokens |-> doc, abortOnError |-> a] :
     sel \in Selections, doc \in JSONDocs, a \in BOOLEAN}

XMLInputs ==
  {[fn |-> "xml", selection |-> sel, tokens |-> doc] :
     sel \in {"a", "rec"}, doc \in XMLDocs}

ParseInit ==
  /\ NewTree
  /\ cfg = NoCfg /\ inq = <<>> /\ got = <<>>
  /\ home = [w \in Workers |-> StageCtrl]
  /\ NoStage
  /\ arg \in CsvInputs \cup JSONInputs \cup XMLInputs
  /\ res = [pc |-> "start"] /\ closes = <<>> /\ prog = 0

Unparsed ==
  UNCHANGED <<created, wg, quit, childBuilt, sup, supErr, home, wpc, nErr,
              dep, built, user, last, cbCalls, calls, panic, doneSeen,
              cfg, inq, outq, wst, task, cons, got, warned, closes, prog, arg,
              apart>>

\* Decode's header step: the field map of the header row
CsvHeader ==
  /\ arg.fn = "csv" /\ res.pc = "start"
  /\ res' = [pc |-> "row",
             fieldMap |-> parseHeaderForType(arg.header, arg.type)]
  /\ Unparsed

\* Decode's row step: one row of as many cells as the header has
CsvRow ==
  /\ arg.fn = "csv" /\ res.pc = "row"
  /\ \E row \in [1..Len(arg.header) -> RowCells] :
       res' = [pc |-> "done", fieldMap |-> res.fieldMap, row |-> row,
               out |-> parseRowWithFieldMap(row, res.fieldMap)]
  /\ Unparsed

\* Decode up to its loop, given what navigateToSelection returned: its
\* error is sent on errs and Decode returns
afterNavigate(nav) ==
  [pc |-> IF nav.err = NoErr THEN "loop" ELSE "done",
   pos |-> nav.pos, out |-> <<>>,
   errs |-> IF nav.err = NoErr THEN <<>> ELSE <<nav.err>>]

JSONNavigate ==
  /\ arg.fn = "json" /\ res.pc = "start"
  /\ res' = afterNavigate(navigateToSelection(arg.selection, arg.tokens))
  /\ Unparsed

\* a Decode that returns after its first record
decodeTurn_Once(in, r) ==
  IF ~More(in.tokens, r.pos) THEN [r EXCEPT !.pc = "done"]
  ELSE LET d == jsonDecode(in.tokens, r.pos)
       IN [r EXCEPT !.pc = "done", !.pos = d.pos, !.out = Append(@, d.rec)]

\* one turn of Decode's loop from r: return when More() is false; else
\* decode a record, send its error if any and return under AbortOnError,
\* and send the record on the output
decodeTurn(in, r) ==
  IF ~More(in.tokens, r.pos) THEN [r EXCEPT !.pc = "done"]
  ELSE LET d == jsonDecode(in.tokens, r.pos)
       IN IF d.err # NoErr /\ in.abortOnError
          THEN [r EXCEPT !.pc = "done", !.pos = d.pos,
                         !.errs = Append(@, d.err)]
          ELSE [r EXCEPT !.pos = d.pos,
                         !.errs = IF d.err = NoErr THEN @ ELSE Append(@, d.err),
                         !.out = Append(@, d.rec)]

\* Decode's loop from r until it returns
RECURSIVE RunFrom(_, _)
RunFrom(in, r) == IF r.pc = "done" THEN r ELSE RunFrom(in, decodeTurn(in, r))

JSONDecode ==
  /\ arg.fn = "json" /\ res.pc = "loop"
  /\ res' = decodeTurn(arg, res)
  /\ Unparsed

\* XML Decode: the decoder is made, then the loop turns
XMLDecode ==
  /\ arg.fn = "xml" /\ res.pc \in {"start", "loop"}
  /\ res' = IF res.pc = "start"
            THEN [pc |-> "loop", pos |-> 1, out |-> <<>>, errs |-> <<>>]
            ELSE xmlTurn(arg, res)
  /\ Unparsed

ParseNext ==
  \/ CsvHeader
  \/ CsvRow
  \/ JSONNavigate
  \/ JSONDecode
  \/ XMLDecode

ParseSpec == ParseInit /\ [][ParseNext]_vars

\* some field of the shape, at any depth, carries the csv tag name
RECURSIVE HasTag(_, _)
HasTag(target, name) ==
  \E i \in 1..Len(target) :
    \/ target[i].tagged /\ target[i].csv = name
    \/ HasTag(target[i].fields, name)

\* C22: every header column maps to one field path; a column whose trimmed
\* header equals no field's csv tag maps to the empty path, and decoding a
\* row gives the record it gives with that column's cell left empty
C22_UnmatchedColumnSkipped ==
  (arg.fn = "csv" /\ res.pc = "done") =>
    /\ DOMAIN res.fieldMap = 1..Len(arg.header)
    /\ \A j \in 1..Len(arg.header) :
         ~HasTag(arg.type, TrimSpace(arg.header[j])) =>
           /\ res.fieldMap[j] = <<>>
           /\ res.out = parseRowWithFieldMap([res.row EXCEPT ![j] = <<>>],
                                             res.fieldMap)

\* the records r1..rn a consumer expects of an array of n records
Emitted(n) == [i \in 1..n |-> Record(i)]

\* C23: for the document {"a":{"b":[r1,..,rn]}} and the selection a.b the
\* decoder emits exactly r1,..,rn in that order, and no error
C23_LiteralPath ==
  (arg.fn = "json" /\ res.pc = "done" /\ arg.selection = <<"a", ".", "b">>) =>
    \A n \in 0..MaxRecs :
      arg.tokens = NestedDoc("a", n) =>
        res.out = Emitted(n) /\ res.errs = <<>>

\* C24: for the document {"a":{"b":[r1,..,rn]}} and the selection a.* the
\* navigation stops just after the first array delimiter, and the decoder
\* emits exactly r1,..,rn in that order, without error, and returns with
\* the decoder at the end of that array
C24_Wildcard ==
  (arg.fn = "json" /\ res.pc # "start" /\ arg.selection = <<"a", ".", "*">>) =>
    \A n \in 0..MaxRecs :
      arg.tokens = NestedDoc("a", n) =>
        /\ res.out = <<>> =>
             /\ arg.tokens[res.pos - 1] = Delim("[")
             /\ \A i \in 1..(res.pos - 2) : arg.tokens[i] # Delim("[")
        /\ res.errs = <<>>
        /\ res.out = SubSeq(Emitted(n), 1, Len(res.out))
        /\ res.pc = "done" =>
             res.out = Emitted(n) /\ arg.tokens[res.pos] = Delim("]")

C24_Witness ==
  /\ arg.fn = "json" /\ res.pc = "done"
  /\ arg.selection = <<"a", ".", "*">>
  /\ arg.tokens = NestedDoc("a", 3)
  /\ res.out = <<Record(1), Record(2), Record(3)>>

\* the components of a selection that are not empty
NonEmpty(nestIn) == SelectSeq(nestIn, LAMBDA c : c # <<>>)

\* C25: empty components of a selection consume no token: for every
\* selection and document, the navigation ends at the token, and with the
\* error, of the navigation by the selection's non-empty components alone,
\* and the run emits the records and errors that one emits
C25_EmptyComponents ==
  (arg.fn = "json" /\ res.pc # "start") =>
    LET plain == navigateFrom(NonEmpty(Split(arg.selection)), arg.tokens, 1)
    IN /\ navigateToSelection(arg.selection, arg.tokens) = plain
       /\ RunFrom(arg, res) = RunFrom(arg, afterNavigate(plain))

C25_Witness ==
  /\ arg.fn = "json" /\ res.pc = "done"
  /\ arg.selection = <<".", ".", "a", ".", "*">>
  /\ arg.tokens = NestedDoc("a", 3)
  /\ res.out = Emitted(3)

\* C26: when the end of the document comes before the end of the selection,
\* Decode returns without a record and without an error for the worker
C26_UnreachableSelectionSilent ==
  (/\ arg.fn = "json" /\ res.pc = "done"
   /\ navigateToSelection(arg.selection, arg.tokens).err # NoErr) =>
    res.out = <<>> /\ res.errs = <<>>

\* the start elements named by the selection that lie in no other element
\* named by the selection
TopMatches ==
  {i \in 1..Len(arg.tokens) :
     /\ arg.tokens[i] = [kind |-> "start", name |-> arg.selection]
     /\ \A j \in 1..(i - 1) :
          arg.tokens[j] = [kind |-> "start", name |-> arg.selection]
            => ElementEnd(arg.tokens, j, 0) < i}

\* C27: the XML decoder emits one record for each start element named by
\* the selection and not nested in another such element, in document order,
\* and no other record; <a><rec></rec><rec></rec></a> with selection rec
\* gives two records
C27_XmlSelection ==
  (arg.fn = "xml" /\ res.pc \in {"loop", "done"}) =>
    /\ \A k \in 1..Len(res.out) :
         /\ res.out[k].at \in TopMatches
         /\ res.out[k].rec = SubSeq(arg.tokens, res.out[k].at,
                               ElementEnd(arg.tokens, res.out[k].at, 0))
         /\ \A m \in 1..(k - 1) : res.out[m].at < res.out[k].at
    /\ res.pc = "done" =>
         /\ {res.out[k].at : k \in 1..Len(res.out)} = TopMatches
         /\ res.errs = <<>>
         /\ (arg.selection = "rec" /\ arg.tokens =
               <<[kind |-> "start", name |-> "a"],
                 [kind |-> "start", name |-> "rec"],
                 [kind |-> "end", name |-> "rec"],
                 [kind |-> "start", name |-> "rec"],
                 [kind |-> "end", name |-> "rec"],
                 [kind |-> "end", name |-> "a"]>>) => Len(res.out) = 2

\* a run over nested matching elements: <rec><rec></rec></rec><rec></rec>
C27_Witness ==
  /\ arg.fn = "xml" /\ res.pc = "done" /\ arg.selection = "rec"
  /\ arg.tokens = <<[kind |-> "start", name |-> "rec"],
                    [kind |-> "start", name |-> "rec"],
                    [kind |-> "end", name |-> "rec"],
                    [kind |-> "end", name |-> "rec"],
                    [kind |-> "start", name |-> "rec"],
                    [kind |-> "end", name |-> "rec"]>>
  /\ Len(res.out) = 2

\* the readers the workers have received from the input
ReceivedReaders == {r \in Readers : \A k \in DOMAIN inq : inq[k] # r}

\* C28: a reader a decoder worker received is closed by the decoder, once:
\* never twice, and once when nothing in the stage can move any more
C28_ReaderClosedOnce ==
  cfg.stage \in Decoders =>
    \A r \in ReceivedReaders :
      /\ closes[r] <= 1
      /\ StageQuiescent => closes[r] = 1

\* the k-th ForEach function fails on the record rec
ForEachFails(rec, k) == rec = cfg.bad /\ cfg.forEachs[k]

\* C29: runForEachs calls the functions in the order of their registration
\* and stops at the first that fails; the record on which a function failed
\* is never sent on the output; once the worker has taken that record it
\* stands at (or is past) `ctrl.Err <- err`; and in a run nobody aborts whose
\* input is closed and whose output is drained, once nothing more can happen
\* every other record has been received
C29_ForEach ==
  cfg.stage = "stream" =>
    /\ \A i \in Rows :
         LET run == runForEachs(<<1, i>>)
             n == Len(run.called)
         IN /\ run.called = [k \in 1..n |-> k]
            /\ \A k \in 1..(n - 1) : ~ForEachFails(<<1, i>>, k)
            /\ IF run.err = NoErr
               THEN n = Len(cfg.forEachs) /\ (n > 0 => ~ForEachFails(<<1, i>>, n))
               ELSE ForEachFails(<<1, i>>, n) /\ run.err = <<"forEach", n>>
    /\ \A j \in DOMAIN got[1] : <<1, got[1][j]>> # cfg.bad
    /\ (cfg.bad # <<>> /\ \A k \in DOMAIN inq : inq[k] # cfg.bad) =>
         \E w \in StageWorkers : nErr[w] = 1
    /\ (/\ StageQuiescent /\ quit[RunCtrl] = "open"
        /\ cfg.inClosed /\ cfg.consumer = "drain") =>
         GotExactly(1, GoodRows(1))

\* the second of two functions failed on the first record, the worker has
\* published the error, and the record after it was received
C29_Witness ==
  /\ cfg.stage = "stream" /\ cfg.bad = <<1, 1>>
  /\ cfg.forEachs = <<FALSE, TRUE>>
  /\ runForEachs(cfg.bad).called = <<1, 2>>
  /\ \E w \in StageWorkers : nErr[w] = 1 /\ wpc[w] # "pub"
  /\ \E j \in DOMAIN got[1] : got[1][j] = 2

\* a run of a Streamer or a decoder on an input without a bad row
CleanRun == cfg.stage \in Decoders \cup {"stream"} /\ cfg.bad = <<>>

MaxDocs == 3

\* the payload ForElastic() returns: nil, or a document
Nil == "nil"
Doc == "doc"
\* the processor's workers (Opts.NumWorkers)
Flushers == 1..NumWorkers

\* the input: the payloads of the records on In, whether In is ever
\* closed, and whether a progress sink is configured
WriterCfgs ==
  UNION {{[stage |-> "write", abortOnError |-> FALSE, bad |-> <<>>,
           badKind |-> None, inClosed |-> ic, consumer |-> None,
           progress |-> p, docs |-> d] :
            ic \in BOOLEAN, p \in BOOLEAN, d \in [1..n -> {Nil, Doc}]} :
         n \in 0..MaxDocs}

FlusherIdle == [pc |-> "idle", recsStored |-> 0]

\* Elasticsearch(client, input), before Start
WriterInit ==
  /\ NewTree
  /\ cfg \in WriterCfgs
  /\ home = [w \in Workers |-> StageCtrl]
  /\ inq = cfg.docs
  /\ got = <<>>
  /\ outq = "none"
  /\ wst = [w \in Workers |-> AtSelect]
  /\ task = [w \in Workers |-> NoTask]
  /\ cons = NotStarted
  /\ warned = <<>>
  /\ arg = None /\ res = None /\ closes = <<>> /\ prog = 0
  /\ wr = "start"
  /\ pendingCount = 0
  /\ proc = [added |-> 0, held |-> [f \in Flushers |-> 0]]
  /\ flushers = [f \in Flushers |-> FlusherIdle]
  /\ pulses = [owed |-> 0, sent |-> 0]
  /\ opened = {}

\* what no step of the writer or of the processor touches
WriterFrame ==
  UNCHANGED <<created, wg, quit, childBuilt, sup, supErr, home, wpc, nErr,
              dep, built, user, last, cbCalls, calls, panic, doneSeen,
              cfg, fn, closes, prog, outq, wst, task, cons, got, warned,
              opened>>

\* startBulkProcessor returns nil: the processor's workers run
WriterStart ==
  /\ Running /\ wr = "start"
  /\ wr' = "select"
  /\ UNCHANGED <<inq, pendingCount, proc, flushers, pulses>>
  /\ WriterFrame

\* `case <-ctrl.Quit: return`
WriterQuit ==
  /\ Running /\ wr = "select" /\ quit[RunCtrl] = "closed"
  /\ wr' = "stop"
  /\ UNCHANGED <<inq, pendingCount, proc, flushers, pulses>>
  /\ WriterFrame

\* `case rec, ok := <-e.In` with ok false
WriterEOS ==
  /\ Running /\ wr = "select" /\ inq = <<>> /\ cfg.inClosed
  /\ wr' = "stop"
  /\ UNCHANGED <<inq, pendingCount, proc, flushers, pulses>>
  /\ WriterFrame

\* a storeRec that hands every record to the processor
storeRec_NoSkip(data, f) ==
  /\ flushers[f].pc = "idle"
  /\ proc' = [added |-> proc.added + 1,
              held |-> [proc.held EXCEPT ![f] = @ + 1]]
  /\ wr' = "count"

\* storeRec up to processor.Add: a nil payload returns at once; otherwise
\* Add hands the request to a processor worker that stands at its receive
storeRec(data, f) ==
  IF data = Nil
  THEN /\ f = 1
       /\ UNCHANGED proc
       /\ wr' = "select"
  ELSE /\ flushers[f].pc = "idle"
       /\ proc' = [added |-> proc.added + 1,
                   held |-> [proc.held EXCEPT ![f] = @ + 1]]
       /\ wr' = "count"

\* `case rec, ok := <-e.In` with a record: e.storeRec(rec)
WriterRecv ==
  /\ Running /\ wr = "select" /\ inq # <<>>
  /\ inq' = Tail(inq)
  /\ \E f \in Flushers : storeRec(Head(inq), f)
  /\ UNCHANGED <<pendingCount, flushers, pulses>>
  /\ WriterFrame

\* storeRec, `atomic.AddUint32(&e.pendingCount, 1)` (the inputs are far
\* from the 2^32 records that would wrap the counter)
WriterCount ==
  /\ Running /\ wr = "count"
  /\ pendingCount' = pendingCount + 1
  /\ wr' = "select"
  /\ UNCHANGED <<inq, proc, flushers, pulses>>
  /\ WriterFrame

\* a processor worker commits the requests it holds (threshold, timer or
\* Flush) and calls afterFlush: `recsStored := atomic.LoadUint32(...)`
afterFlushLoad(f) ==
  /\ Running /\ wr # "start" /\ wr # "done"
  /\ flushers[f].pc = "idle" /\ proc.held[f] > 0
  /\ proc' = [proc EXCEPT !.held[f] = 0]
  /\ flushers' = [flushers EXCEPT ![f] =
                    [pc |-> "loaded", recsStored |-> pendingCount]]
  /\ UNCHANGED <<inq, wr, pendingCount, pulses>>
  /\ WriterFrame

\* afterFlush, `atomic.StoreUint32(&e.pendingCount, 0)` and, with a sink,
\* the goroutine that sends recsStored pulses
afterFlushStore(f) ==
  /\ Running /\ flushers[f].pc = "loaded"
  /\ pendingCount' = 0
  /\ pulses' = IF cfg.progress
               THEN [pulses EXCEPT !.owed = @ + flushers[f].recsStored]
               ELSE pulses
  /\ flushers' = [flushers EXCEPT ![f] = FlusherIdle]
  /\ UNCHANGED <<inq, wr, proc>>
  /\ WriterFrame

\* the deferred stopBulkProcessor: Flush() has every worker commit what it
\* holds and acknowledge, Stop() ends the workers; Start returns
WriterStop ==
  /\ Running /\ wr = "stop"
  /\ \A f \in Flushers : flushers[f].pc = "idle" /\ proc.held[f] = 0
  /\ wr' = "done"
  /\ UNCHANGED <<inq, pendingCount, proc, flushers, pulses>>
  /\ WriterFrame

\* the owner of the sink receives one pulse of `e.Opts.Progress <- struct{}{}`
PulseRecv ==
  /\ Running /\ pulses.owed > 0
  /\ pulses' = [owed |-> pulses.owed - 1, sent |-> pulses.sent + 1]
  /\ UNCHANGED <<inq, wr, pendingCount, proc, flushers>>
  /\ WriterFrame

WriterNext ==
  \/ WriterStart
  \/ WriterQuit
  \/ WriterEOS
  \/ WriterRecv
  \/ WriterCount
  \/ \E f \in Flushers : afterFlushLoad(f)
  \/ \E f \in Flushers : afterFlushStore(f)
  \/ WriterStop
  \/ PulseRecv
  \/ UserAbort(RunCtrl)
  \/ AbortReturn

WriterSpec == WriterInit /\ [][WriterNext]_vars

\* ------------------------------------------------------------------ C31
\* the records the writer has taken from In so far
Taken == SubSeq(cfg.docs, 1, Len(cfg.docs) - Len(inq))
\* how many records of s have a payload
WithPayload(s) == Cardinality({i \in 1..Len(s) : s[i] = Doc})

\* C31: the bulk writer skips a record whose payload is nil: taking it from
\* In hands nothing to the bulk processor and leaves pendingCount as it
\* was; a record with a payload is handed to the processor once (the
\* requests added are at every moment as many as the records with a payload
\* taken from In) and the writer then adds exactly one to pendingCount.
C31_NilPayloadSkipped ==
  /\ [](proc.added = WithPayload(Taken))
  /\ [][/\ inq' # inq =>
             IF Head(inq) = Nil
             THEN proc' = proc /\ pendingCount' = pendingCount /\ wr' = "select"
             ELSE /\ proc'.added = proc.added + 1
                  /\ \E f \in Flushers :
                       proc'.held = [proc.held EXCEPT ![f] = @ + 1]
                  /\ pendingCount' = pendingCount /\ wr' = "count"
        /\ (wr = "count" /\ wr' # "count") =>
             pendingCount' = pendingCount + 1 /\ proc' = proc]_vars

\* a nil record and a record with a payload were taken, the second one
\* handed over and counted, and Start has returned
C31_Witness ==
  /\ wr = "done" /\ inq = <<>>
  /\ cfg.docs = <<Nil, Doc>>
  /\ proc.added = 1

\* ------------------------------------------------------------------ C39
\* C39: the bulk writer's pending counter loses no record: with a progress
\* sink configured, once Start has returned the pulses published (those the
\* sink received and those the afterFlush goroutines still hold for it) are
\* as many as the records handed to the bulk processor.
C39_PendingCountLosesNothing ==
  (wr = "done" /\ cfg.progress) => pulses.owed + pulses.sent = proc.added

\* ============================================================ DownloadURL
\* Downloader.DownloadURL(url, abort) run by itself on one source: the
\* source's length in blocks of DownloadCopyBlockBytes and bytes beyond
\* them, what fails, the turn of the copy loop at which abort is found
\* closed, whether a progress sink is configured, and whether the source is
\* a local file.
DownloadCopyBlockBytes == 256000

CopyFails(b) ==
  {[at |-> a, turn |-> 0] : a \in {None, "open", "create"}}
    \cup {[at |-> "copy", turn |-> k] : k \in 1..(b + 1)}
CopyInputs ==
  UNION {{[fn |-> "download", blocks |-> b, tail |-> t, fail |-> f,
           abortAt |-> a, progress |-> p, isFile |-> lf] :
            t \in {0, 1}, f \in CopyFails(b), a \in 0..(b + 1),
            p \in BOOLEAN, lf \in BOOLEAN} :
         b \in 0..MaxBlocks}

CopyInit ==
  /\ NewTree
  /\ cfg = NoCfg /\ inq = <<>> /\ got = <<>>
  /\ home = [w \in Workers |-> StageCtrl]
  /\ NoStage
  /\ arg \in CopyInputs
  /\ res = [pc |-> "start"] /\ closes = <<>> /\ prog = 0

\* DownloadURL has returned file (a file or nil) and err; events are the
\* Bytes of the progress events its goroutines send, in spawning order
CopyReturn(file, err, events) ==
  [pc |-> "done", file |-> file, err |-> err, events |-> events]

\* reportProgress(file, bytes): with a sink, one more goroutine with an event
reportProgressOf(events, bytes) ==
  IF arg.progress THEN Append(events, bytes) ELSE events

\* DownloadURL up to its copy loop: MkdirAll, cloudfile.Open, the local
\* file returned as it is, os.Create
CopyOpen ==
  /\ arg.fn = "download" /\ res.pc = "start"
  /\ res' = CASE arg.fail.at = "open" -> CopyReturn(FALSE, <<"open">>, <<>>)
              [] arg.isFile -> CopyReturn(TRUE, NoErr, <<>>)
              [] arg.fail.at = "create" -> CopyReturn(FALSE, <<"create">>, <<>>)
              [] OTHER -> [pc |-> "copy", turn |-> 1, events |-> <<>>]
  /\ Unparsed

\* one turn of the copy loop: abort closed returns ErrAborted; else
\* io.CopyN copies a block, and only when it returns an error (EOF at the
\* end of the source, or a failure) is reportProgress called, with the bytes
\* of that last call
CopyTurn ==
  /\ arg.fn = "download" /\ res.pc = "copy"
  /\ res' =
       CASE arg.abortAt # 0 /\ arg.abortAt <= res.turn ->
              CopyReturn(FALSE, ErrAborted, res.events)
         [] arg.fail.at = "copy" /\ arg.fail.turn = res.turn ->
              CopyReturn(FALSE, <<"io">>, reportProgressOf(res.events, 0))
         [] res.turn <= arg.blocks -> [res EXCEPT !.turn = @ + 1]
         [] OTHER ->
              CopyReturn(TRUE, NoErr, reportProgressOf(res.events, arg.tail))
  /\ Unparsed

CopyNext == CopyOpen \/ CopyTurn

CopySpec == CopyInit /\ [][CopyNext]_vars

\* ------------------------------------------------------------------ C32
\* the blocks of the source: the full ones and the one the rest makes
BlocksOf(in) == in.blocks + (IF in.tail > 0 THEN 1 ELSE 0)

\* C32: a remote source of b blocks (at least one full block) that is
\* downloaded to its end, with a progress sink configured, gives b progress
\* events, one per block copied.
C32_ProgressPerBlock ==
  (/\ arg.fn = "download" /\ res.pc = "done" /\ res.err = NoErr
   /\ ~arg.isFile /\ arg.progress /\ arg.blocks > 0)
    => Len(res.events) = BlocksOf(arg)

\* what the code does: one event per source, sent when CopyN returns EOF,
\* with the bytes of that last call only
C32_OneEventPerSource ==
  (/\ arg.fn = "download" /\ res.pc = "done" /\ res.err = NoErr
   /\ ~arg.isFile /\ arg.progress)
    => res.events = <<arg.tail>>

\* ================================================================== unzip
\* Unzipper.Start on the root (src/unzip.go): the child M carries the unzip
\* worker, the input channel `files` is the output of the Downloader, given
\* here by its content (the archives, one per reader number) and by whether
\* it is ever closed.  Every archive holds the entries 1..MaxRows, of which
\* the filter matches cfg.matched; the entry reader <<r, i>> is what
\* inside.Open() returns for entry i of archive r.
Entries == Readers \X Rows

\* at most one failure: an archive zip.OpenReader cannot read (entry 0), or
\* an entry whose Open() fails
UnzipCfgs ==
  UNION {{[stage |-> "unzip", abortOnError |-> FALSE, bad |-> b.at,
           badKind |-> b.kind, inClosed |-> ic, consumer |-> "drain",
           progress |-> p, matched |-> m, out |-> "own"] :
            ic \in BOOLEAN, p \in BOOLEAN, m \in SUBSET Rows} :
         b \in {[at |-> <<r, Header>>, kind |-> "zip"] : r \in Readers}
                 \cup {[at |-> <<r, i>>, kind |-> "open"] : r \in Readers, i \in Rows}
                 \cup {[at |-> <<>>, kind |-> None]}}

UnzipInit ==
  /\ NewTree
  /\ cfg \in UnzipCfgs
  /\ home = [w \in Workers |-> StageCtrl]
  /\ inq = InputOf(cfg.stage)
  /\ got = [s \in SourcesOf(cfg.stage) |-> <<>>]
  /\ NoStage
  /\ arg = None /\ res = None
  /\ closes = [e \in Entries |-> 0] /\ prog = 0

\* the entries of archive r that the filter matches and that come before
\* entry n, in the archive's order
RECURSIVE MatchedBefore(_, _)
MatchedBefore(r, n) ==
  IF n <= 1 THEN <<>>
  ELSE IF (n - 1) \in cfg.matched
       THEN Append(MatchedBefore(r, n - 1), <<r, n - 1>>)
       ELSE MatchedBefore(r, n - 1)

Range(s) == {s[k] : k \in 1..Len(s)}

\* an UnzipFile that returns the error of Open() without closing the
\* readers it has opened
UnzipFile_NoClose(r) ==
  CASE cfg.bad = <<r, Header>> ->
         [err |-> <<"zip">>, results |-> <<>>, opens |-> {}, closed |-> {}]
    [] cfg.bad # <<>> /\ cfg.bad[1] = r /\ cfg.bad[2] \in cfg.matched ->
         [err |-> <<"open">>, results |-> <<>>,
          opens |-> Range(MatchedBefore(r, cfg.bad[2])), closed |-> {}]
    [] OTHER ->
         [err |-> NoErr, results |-> MatchedBefore(r, MaxRows + 1),
          opens |-> Range(MatchedBefore(r, MaxRows + 1)), closed |-> {}]

\* UnzipFile(file): the error of zip.OpenReader; else the matching entries
\* are opened in order, and the first Open() that fails closes the readers
\* opened so far and returns its error; else all the readers are returned.
\* opens are the readers it opened, closed those it closed
UnzipFile(r) ==
  CASE cfg.bad = <<r, Header>> ->
         [err |-> <<"zip">>, results |-> <<>>, opens |-> {}, closed |-> {}]
    [] cfg.bad # <<>> /\ cfg.bad[1] = r /\ cfg.bad[2] \in cfg.matched ->
         [err |-> <<"open">>, results |-> <<>>,
          opens |-> Range(MatchedBefore(r, cfg.bad[2])),
          closed |-> Range(MatchedBefore(r, cfg.bad[2]))]
    [] OTHER ->
         [err |-> NoErr, results |-> MatchedBefore(r, MaxRows + 1),
          opens |-> Range(MatchedBefore(r, MaxRows + 1)), closed |-> {}]

\* the worker holds the readers still to emit
Emitting(results) ==
  IF results = <<>> THEN AtSelect ELSE [pc |-> "emit", rec |-> <<>>, results |-> results]

\* `case file, ok := <-input`, UnzipFile(file): an error is published with
\* `ctrl.Err <- err`; else UnzipFile has called reportProgress before it
\* returned, and the worker goes on to emit the readers
UnzipRecv(w) ==
  /\ Running /\ cfg.stage = "unzip"
  /\ AtOuterSelect(w) /\ inq # <<>>
  /\ inq' = Tail(inq)
  /\ LET u == UnzipFile(Head(inq)) IN
       /\ opened' = opened \cup u.opens
       /\ closes' = [e \in Entries |->
                       IF e \in u.closed THEN closes[e] + 1 ELSE closes[e]]
       /\ IF u.err # NoErr
          THEN PublishAndLoop(w) /\ UNCHANGED prog
          ELSE /\ wst' = [wst EXCEPT ![w] = Emitting(u.results)]
               /\ reportProgress
               /\ UNCHANGED <<wpc, nErr>>
  /\ UNCHANGED <<created, wg, quit, childBuilt, sup, supErr, home, dep, built,
                 user, last, cbCalls, calls, panic, doneSeen>>
  /\ UNCHANGED <<cfg, fn, bulk, outq, task, cons, got, warned>>

\* `case output <- result: continue`, received by the consumer
UnzipSend(w) ==
  /\ Running /\ w \in StageWorkers /\ wpc[w] = "run" /\ wst[w].pc = "emit"
  /\ IF outq = "closed"
     THEN /\ panic' = Panic(SendOnClosed, "Unzipper", home[w])
          /\ UNCHANGED <<wst, got>>
     ELSE /\ Receiving
          /\ got' = Received(Head(wst[w].results))
          /\ wst' = [wst EXCEPT ![w] = Emitting(Tail(@.results))]
          /\ UNCHANGED panic
  /\ UNCHANGED <<created, wg, quit, childBuilt, sup, supErr, home, wpc, nErr,
                 dep, built, user, last, cbCalls, calls, doneSeen>>
  /\ UNCHANGED <<cfg, fn, apart, closes, prog, inq, outq, task, cons, warned>>

\* `case <-ctrl.Quit: return`, at the worker's outer select and at the
\* select around `output <- result`: the worker returns with the readers it
\* has not emitted
UnzipWorkerQuit(w) ==
  /\ AtOuterSelect(w) \/ (w \in StageWorkers /\ wst[w].pc = "emit")
  /\ WorkerQuit(w)

UnzipNext ==
  \/ \E c \in Ctrls : StartChild(c)
  \/ MakeOut
  \/ \E w \in Workers : StartWorker(w)
  \/ StartReturn
  \/ CloseOut
  \/ \E w \in Workers : UnzipWorkerQuit(w)
  \/ \E w \in Workers : WorkerEOS(w)
  \/ \E w \in Workers : UnzipRecv(w)
  \/ \E w \in Workers : UnzipSend(w)
  \/ ProgressRecv
  \/ \E c \in Ctrls : SupRecv(c)
  \/ \E c \in Ctrls : SupQuit(c)
  \/ \E c \in Ctrls : SupDone(c)
  \/ DrainEOS
  \/ UserError(RunCtrl)
  \/ ErrorRecv
  \/ ErrorDone
  \/ UserAbort(RunCtrl)
  \/ AbortReturn

UnzipSpec == UnzipInit /\ [][UnzipNext]_vars

\* ------------------------------------------------------------------ C33
\* Open() fails on a matching entry of archive r
OpenFails(r) ==
  cfg.badKind = "open" /\ cfg.bad[1] = r /\ cfg.bad[2] \in cfg.matched

\* C33: when opening a matching entry of an archive fails, the readers
\* already opened for that archive are closed (once each) by the time the
\* error is returned and published, no reader of that archive is ever
\* emitted on the output, and the step that takes the archive sends no
\* progress pulse.
C33_OpenErrorClosesOpened ==
  /\ [](\A r \in Readers : OpenFails(r) =>
          /\ got[r] = <<>>
          /\ \A e \in opened : e[1] = r => closes[e] = 1)
  /\ [][\A r \in Readers :
          (OpenFails(r) /\ inq # <<>> /\ Head(inq) = r /\ inq' # inq) =>
            /\ prog' = prog
            /\ \E w \in StageWorkers : wpc[w] = "run" /\ wpc'[w] = "pub"
            /\ \A e \in opened' : e[1] = r => closes'[e] = 1]_vars

\* the second entry of archive 1 failed to open after the first was
\* opened: the first is closed, the error was published, and with a sink
\* configured no goroutine holds a pulse
C33_Witness ==
  /\ cfg.stage = "unzip" /\ OpenFails(1) /\ cfg.bad[2] = 2
  /\ opened = {<<1, 1>>} /\ closes[<<1, 1>>] = 1
  /\ cfg.progress /\ prog = 0
  /\ nErr[1] = 1

\* ------------------------------------------------------------------ C40
\* the owner of an opened entry reader: the worker that still runs and holds
\* it for emission, or the consumer that received it; a closed reader needs
\* none
Owned(e) ==
  \/ closes[e] > 0
  \/ \E k \in 1..Len(got[e[1]]) : got[e[1]][k] = e[2]
  \/ \E w \in StageWorkers :
       /\ wpc[w] \in {"run", "pub"} /\ wst[w].pc = "emit"
       /\ e \in Range(wst[w].results)

\* C40: every entry reader the unzip stage has opened is at every moment
\* held by the running worker, handed to the consumer, or closed, also when
\* the abort signal fires while the worker emits an archive's readers.
C40_NoReaderLeaked ==
  \A e \in opened : Owned(e)

\* ================================================== a given output channel
\* A Streamer, a CSV decoder or a JSON decoder whose output channel was
\* given by the caller (Streamer.WriteTo, CSVParser.WriteTo,
\* JSONParser.ReadInto), next to the Streamer that makes its own.
WriteToCfgs ==
  {[c EXCEPT !.out = "given"] :
     c \in StreamCfgs \cup {d \in DecoderCfgs : d.stage \in {"csv", "json"}}}
    \cup StreamCfgs

WriteToInit ==
  /\ NewTree
  /\ cfg \in WriteToCfgs
  /\ home = [w \in Workers |-> StageCtrl]
  /\ inq = InputOf(cfg.stage)
  /\ got = [s \in SourcesOf(cfg.stage) |-> <<>>]
  /\ NoStage
  /\ arg = None /\ res = None
  /\ closes = [r \in Readers |-> 0] /\ prog = 0

WriteToNext ==
  \/ \E c \in Ctrls : StartChild(c)
  \/ MakeOut
  \/ \E w \in Workers : StartWorker(w)
  \/ StartReturn
  \/ CloseOut
  \/ \E w \in Workers : StageWorkerQuit(w)
  \/ \E w \in Workers : WorkerEOS(w)
  \/ \E w \in Workers : StreamRecv(w)
  \/ \E w \in Workers : StreamSend(w)
  \/ \E w \in Workers : DecodeRecv(w)
  \/ \E w \in Workers : WorkerDone(w)
  \/ \E w \in Workers : WorkerErrs(w)
  \/ \E w \in Workers : WorkerReturn(w)
  \/ \E w \in Workers : TaskRead(w)
  \/ \E w \in Workers : TaskSend(w)
  \/ \E w \in Workers : TaskAbort(w)
  \/ ProgressRecv
  \/ \E c \in Ctrls : SupRecv(c)
  \/ \E c \in Ctrls : SupQuit(c)
  \/ \E c \in Ctrls : SupDone(c)
  \/ DrainEOS
  \/ CollectEOS
  \/ CollectErr
  \/ CollectQuit
  \/ UserError(RunCtrl)
  \/ ErrorRecv
  \/ ErrorDone
  \/ UserAbort(RunCtrl)
  \/ AbortReturn

WriteToSpec == WriteToInit /\ [][WriteToNext]_vars

\* ------------------------------------------------------------------ C34
\* C34: a stage that writes into an output channel the caller gave never
\* closes it, whatever the run (end of input, error, abort, all workers
\* gone).
C34_GivenOutputNeverClosed ==
  cfg.out = "given" => outq # "closed"

\* a CSV decoder with a given output read its input to the end: all its
\* workers have exited, the child's counter is zero, the records were
\* received and the channel is still open
C34_Witness ==
  /\ cfg.out = "given" /\ cfg.stage = "csv"
  /\ \A w \in StageWorkers : wpc[w] = "exited"
  /\ wg[StageCtrl] = 0 /\ doneSeen[StageCtrl]
  /\ \A r \in Readers : Len(got[r]) = MaxRows
  /\ outq = "open"

\* ------------------------------------------------------------------ C35
\* StreamArray(array).Collect(ctrl): the input is a buffered channel filled
\* with the array's elements and never closed; no ForEach function fails
StreamArrayRun ==
  /\ cfg.stage = "stream" /\ cfg.out = "own" /\ ~cfg.inClosed
  /\ cfg.consumer = "collect" /\ cfg.bad = <<>>

\* C35: Collect on a Streamer built by StreamArray, with no failing ForEach
\* function and no abort, terminates: when the stage has come to rest
\* Collect has returned, with exactly the array's elements in order and a
\* nil error.
C35_StreamArrayCollect ==
  (StreamArrayRun /\ quit[RunCtrl] = "open" /\ StageQuiescent) =>
    /\ cons.pc = "ret" /\ cons.err = NoErr
    /\ cons.recs = got /\ got[1] = [i \in Rows |-> i]

\* ------------------------------------------------------------------ C36
\* column j's header is the csv tag of the timestamp field i of the shape,
\* a tag no other field of the shape carries
TimestampColumn(j, i) ==
  /\ arg.type[i].kind = "time.Time" /\ arg.type[i].tagged
  /\ TrimSpace(arg.header[j]) = arg.type[i].csv
  /\ \A k \in 1..Len(arg.type) : k # i => ~HasTag(<<arg.type[k]>>, arg.type[i].csv)

\* C36: a header cell equal to the csv tag of a timestamp field binds the
\* column to that field (the column's path is the field's index), and a
\* non-empty cell of the column is not skipped when a row is decoded: it is
\* parsed into the field, so the outcome differs from that of the row with
\* the cell left empty.
C36_TimestampBinds ==
  (arg.fn = "csv" /\ res.pc = "done") =>
    \A j \in 1..Len(arg.header), i \in 1..Len(arg.type) :
      TimestampColumn(j, i) =>
        /\ res.fieldMap[j] = <<i>>
        /\ res.row[j] # <<>> =>
             res.out # parseRowWithFieldMap([res.row EXCEPT ![j] = <<>>],
                                            res.fieldMap)

\* what the code does with such a column: findFieldInStruct descends into
\* time.Time as into any struct, finds no field tagged like the header, and
\* the column is left unbound
C36_TimestampNeverBound ==
  (arg.fn = "csv" /\ res.pc = "done") =>
    \A j \in 1..Len(arg.header), i \in 1..Len(arg.type) :
      TimestampColumn(j, i) => res.fieldMap[j] = <<>>

\* ------------------------------------------------------------------ C37
\* the caller's first and only call, Error() on the root, returns nil
ErrorReturnsNil ==
  /\ user.pc = "error" /\ user.ctrl = Root /\ calls = 1
  /\ user'.pc = "idle" /\ last'.val = NoErr

\* C37: with Error() on the root as the only receiver of the root's Err
\* channel, Error() returns nil only if no worker anywhere in the tree has
\* published an error: at that moment no worker has sent or stands sending
\* an error and no supervisor holds one to forward.
C37_NilOnlyWithoutError ==
  [][ErrorReturnsNil =>
       /\ \A w \in Workers : nErr[w] = 0
       /\ \A c \in Ctrls : supErr[c] = NoErr]_vars

\* what holds: in the runs where no DependencyGroup.Wait() goroutine has
\* touched a controller, Error() returns nil only if nothing was published
C37_NilWithoutWaiter ==
  [][(ErrorReturnsNil /\ \A c \in Ctrls : dep[c] = "idle") =>
       /\ \A w \in Workers : nErr[w] = 0
       /\ \A c \in Ctrls : supErr[c] = NoErr]_vars

\* ------------------------------------------------------------------ C38
\* C38: the counter of every controller's WaitGroup is never negative and no
\* wg.Done() ever finds it at zero: every WorkerStart() is matched by at
\* most one WorkerEnd(), and the pre-increment of a child is released once,
\* also when the deferred ChildBuilt() of a Start and the ChildBuilt() of a
\* DependencyGroup.Wait() goroutine are both made on the same child.  The
\* counter of a created controller is the pre-increment still held plus its
\* live workers plus the live supervisors of its children.
C38_CounterNeverNegative ==
  /\ panic.kind # NegativeCounter
  /\ \A c \in Ctrls :
       /\ wg[c] >= 0
       /\ created[c] =>
            wg[c] = Pre(c) + Cardinality(Live(c)) + Cardinality(LiveSups(c))

\* the deferred ChildBuilt() of a Start that was handed the child and the one
\* of DependencyGroup.Wait() were both made on that child; its worker has
\* since ended, the counter is back at zero and Wait() has returned
C38_Witness ==
  /\ Running
  /\ \E c \in DepCtrls \cap UserCtrls :
       /\ dep[c] = "done" /\ cbCalls[c] >= 2 /\ childBuilt[c]
       /\ \E w \in Workers : home[w] = c /\ wpc[w] = "exited"
       /\ wg[c] = 0

====
